---- MODULE Spec2Model ----
(***************************************************************************)
(* Verification model of the osmo-bts NM object state machines:           *)
(*   - the NM Channel (timeslot) FSM      (nm_chan_fsm)                    *)
(*   - the NM BTS Site Manager FSM        (nm_bts_sm_fsm)                  *)
(* Every event dispatch runs to completion (single-threaded, synchronous   *)
(* dispatch), so one action of the model is one top-level dispatch with    *)
(* everything the handler calls, nested dispatches included.               *)
(***************************************************************************)
EXTENDS Integers, Sequences, FiniteSets, TLC

\* ------------------------------------------------------------------------
\* Bounds
\* ------------------------------------------------------------------------
\* number of child BTS objects on the site manager's bts_list
NumBts == 2

\* ------------------------------------------------------------------------
\* Enumerations
\* ------------------------------------------------------------------------
NM_CHAN_ST_OP_DISABLED_NOTINSTALLED == "DISABLED_NOTINSTALLED"
NM_CHAN_ST_OP_DISABLED_DEPENDENCY == "DISABLED_DEPENDENCY"
NM_CHAN_ST_OP_DISABLED_OFFLINE == "DISABLED_OFFLINE"
NM_CHAN_ST_OP_ENABLED == "ENABLED"

NM_BTS_SM_ST_OP_DISABLED_NOTINSTALLED == "DISABLED_NOTINSTALLED"
NM_BTS_SM_ST_OP_DISABLED_OFFLINE == "DISABLED_OFFLINE"
NM_BTS_SM_ST_OP_ENABLED == "ENABLED"

NM_OPSTATE_DISABLED == "OP_DISABLED"
NM_OPSTATE_ENABLED == "OP_ENABLED"
NM_AVSTATE_NOT_INSTALLED == "AV_NOT_INSTALLED"
NM_AVSTATE_OFF_LINE == "AV_OFF_LINE"
NM_AVSTATE_DEPENDENCY == "AV_DEPENDENCY"
NM_AVSTATE_OK == "AV_OK"
NM_STATE_LOCKED == "ADM_LOCKED"
NM_STATE_UNLOCKED == "ADM_UNLOCKED"
NM_STATE_SHUTDOWN == "ADM_SHUTDOWN"
\* the "-1" argument of oml_mo_state_chg: leave that component alone
NOCHG == "-1"

NM_EV_SW_ACT == "NM_EV_SW_ACT"
NM_EV_RX_SETATTR == "NM_EV_RX_SETATTR"
NM_EV_RX_OPSTART == "NM_EV_RX_OPSTART"
NM_EV_OPSTART_ACK == "NM_EV_OPSTART_ACK"
NM_EV_OPSTART_NACK == "NM_EV_OPSTART_NACK"
NM_EV_SHUTDOWN_START == "NM_EV_SHUTDOWN_START"
NM_EV_SHUTDOWN_FINISH == "NM_EV_SHUTDOWN_FINISH"
NM_EV_OML_UP == "NM_EV_OML_UP"
NM_EV_RCARRIER_ENABLED == "NM_EV_RCARRIER_ENABLED"
NM_EV_RCARRIER_DISABLED == "NM_EV_RCARRIER_DISABLED"
NM_EV_BBTRANSC_ENABLED == "NM_EV_BBTRANSC_ENABLED"
NM_EV_BBTRANSC_DISABLED == "NM_EV_BBTRANSC_DISABLED"
NM_EV_DISABLE == "NM_EV_DISABLE"

\* every event the two state machines use
NmEvents ==
  { NM_EV_SW_ACT, NM_EV_RX_SETATTR, NM_EV_RX_OPSTART, NM_EV_OPSTART_ACK,
    NM_EV_OPSTART_NACK, NM_EV_SHUTDOWN_START, NM_EV_SHUTDOWN_FINISH,
    NM_EV_OML_UP, NM_EV_RCARRIER_ENABLED, NM_EV_RCARRIER_DISABLED,
    NM_EV_BBTRANSC_ENABLED, NM_EV_BBTRANSC_DISABLED, NM_EV_DISABLE }

NM_NACK_CANT_PERFORM == "NM_NACK_CANT_PERFORM"
\* cause codes the hardware/model layer may supply with NM_EV_OPSTART_NACK
NackCauses == { NM_NACK_CANT_PERFORM, "NM_NACK_RES_NOTAVAIL", "NM_NACK_OBJCLASS_NOTSUPP" }

\* how the model activation routine answers: later (asynchronously), or by
\* dispatching the acknowledgement into the same FSM before it returns
OpstartModes == { "async", "sync_ack", "sync_nack" }

\* event data of a dispatch that carries none
NoData == [ rc_ok |-> TRUE, cause |-> "none", opstart |-> "async" ]

VARIABLES
  ts_state,      \* Channel FSM: fi->state
  ts_mo,         \* Channel FSM: ts->mo (flags, nm_state, nm_attr)
  ts_lchans,     \* radio resources held on the timeslot (released by gsm_ts_release)
  vamos_peer,    \* ts->vamos.peer: "NULL", or the peer's resources "idle"/"active"
  trx,           \* operational state of trx->bb_transc.mo and of trx->mo
  rchan_depends, \* BTS_INTERNAL_FLAG_NM_RCHANNEL_DEPENDS_RCARRIER of the BTS model
  sm_state,      \* Site Manager FSM: fi->state
  sm_mo,         \* Site Manager FSM: site_mgr->mo
  out,           \* what the last top-level dispatch sent/called, in order
  last,          \* the last top-level dispatch: FSM, event, data, state before, result
  aborted,       \* an OSMO_ASSERT failed: the process is gone
  opstart_pending, \* per FSM: the model was asked to activate and has not answered
  fi             \* the FSM instance this behaviour drives: "chan" or "sm"

VARIABLES
  lchan,         \* one logical channel: its configuration and lchan->meas
  meas_last,     \* the last measurement call: what was called, its result and its locals
  clock,         \* TDMA frame number of the frame being processed
  hits           \* frames of the running period at which is_meas_complete was true

VARIABLES
  abis,          \* the A-bis link: bts->abis_link_fi with its priv, the signalling links
  abis_last      \* the last call into the A-bis link code: what, its data, the link before

abis_vars == << abis, abis_last >>

\* the variables of the two management FSMs
nm_fsm_vars == << ts_state, ts_mo, ts_lchans, vamos_peer, trx, rchan_depends,
                  sm_state, sm_mo, out, last, aborted, opstart_pending, fi >>

\* the management variables: the two FSMs and the A-bis link
nm_vars == << ts_state, ts_mo, ts_lchans, vamos_peer, trx, rchan_depends,
              sm_state, sm_mo, out, last, aborted, opstart_pending, fi,
              abis, abis_last >>

\* the management variables but `aborted`
nm_rest == << ts_state, ts_mo, ts_lchans, vamos_peer, trx, rchan_depends,
              sm_state, sm_mo, out, last, opstart_pending, fi,
              abis, abis_last >>

meas_vars == << lchan, meas_last, clock, hits >>

vars == << ts_state, ts_mo, ts_lchans, vamos_peer, trx, rchan_depends,
           sm_state, sm_mo, out, last, aborted, opstart_pending, fi,
           lchan, meas_last, clock, hits, abis, abis_last >>

\* ------------------------------------------------------------------------
\* Managed object
\* ------------------------------------------------------------------------
\* gsm_mo_init: a fresh MO, as published before any transition
mo_init ==
  [ setattr_success |-> FALSE,
    opstart_success |-> FALSE,
    nm_attr |-> FALSE,
    nm_state |-> [ operational |-> NM_OPSTATE_DISABLED,
                   availability |-> NM_AVSTATE_NOT_INSTALLED,
                   administrative |-> NM_STATE_LOCKED ] ]

Emit(c, msg) == [c EXCEPT !.out = Append(@, msg)]

\* oml_mo_state_chg(mo, op, avail, adm): update the components that are not
\* -1 and send the state-change notification with the resulting triple
oml_mo_state_chg(c, op, av, adm) ==
  LET ns == [ operational |-> IF op = NOCHG THEN c.mo.nm_state.operational ELSE op,
              availability |-> IF av = NOCHG THEN c.mo.nm_state.availability ELSE av,
              administrative |-> IF adm = NOCHG THEN c.mo.nm_state.administrative ELSE adm ]
  IN Emit([c EXCEPT !.mo.nm_state = ns],
          << "STATE_CHG", ns.operational, ns.availability, ns.administrative >>)

\* oml_tx_state_changed(mo): report the current triple
oml_tx_state_changed(c) ==
  Emit(c, << "STATE_CHG", c.mo.nm_state.operational, c.mo.nm_state.availability,
             c.mo.nm_state.administrative >>)

oml_mo_tx_sw_act_rep(c) == Emit(c, << "SW_ACT_REP" >>)
oml_mo_opstart_ack(c) == Emit(c, << "OPSTART_ACK" >>)
oml_mo_opstart_nack(c, cause) == Emit(c, << "OPSTART_NACK", cause >>)
oml_fom_ack_nack_copy_msg(c, rc_ok) ==
  Emit(c, IF rc_ok THEN << "SETATTR_ACK" >> ELSE << "SETATTR_NACK" >>)

\* OSMO_ASSERT(0)
osmo_panic(c) == [c EXCEPT !.aborted = TRUE]

\* ------------------------------------------------------------------------
\* NM Channel FSM (nm_chan_fsm).  A handler works on the record
\*   c = [state, mo, lchans, vamos, trx, out, aborted]
\* and returns it updated.
\* ------------------------------------------------------------------------

\* mutant: the roles of the radio carrier and of the baseband transceiver
\* exchanged
ts_can_be_enabled_swapped(c) ==
  /\ c.trx.mo = NM_OPSTATE_ENABLED
  /\ (~rchan_depends \/ c.trx.bb_transc = NM_OPSTATE_ENABLED)

\* Can the TS be enabled (OPSTARTed)?
ts_can_be_enabled(c) ==
  /\ c.trx.bb_transc = NM_OPSTATE_ENABLED
  /\ (~rchan_depends \/ c.trx.mo = NM_OPSTATE_ENABLED)

\* gsm_ts_release(ts), and of the VAMOS peer when there is one
gsm_ts_release(c) ==
  [c EXCEPT !.lchans = FALSE,
            !.vamos = IF @ = "active" THEN "idle" ELSE @]

\* mutant: the cached attributes and setattr_success survive the reset
chan_st_op_disabled_notinstalled_on_enter_keeps_attr(c) ==
  LET c1 == gsm_ts_release(c)
      c2 == [c1 EXCEPT !.mo.opstart_success = FALSE]
  IN oml_mo_state_chg(c2, NM_OPSTATE_DISABLED, NM_AVSTATE_NOT_INSTALLED, NM_STATE_LOCKED)

chan_st_op_disabled_notinstalled_on_enter(c) ==
  LET c1 == gsm_ts_release(c)
      c2 == [c1 EXCEPT !.mo.nm_attr = FALSE,
                       !.mo.setattr_success = FALSE,
                       !.mo.opstart_success = FALSE]
  IN oml_mo_state_chg(c2, NM_OPSTATE_DISABLED, NM_AVSTATE_NOT_INSTALLED, NM_STATE_LOCKED)

\* mutant: DEPENDENCY published with the availability of OFFLINE
chan_st_op_disabled_dependency_on_enter_offline(c) ==
  oml_mo_state_chg([c EXCEPT !.mo.opstart_success = FALSE],
                   NM_OPSTATE_DISABLED, NM_AVSTATE_OFF_LINE, NOCHG)

chan_st_op_disabled_dependency_on_enter(c) ==
  oml_mo_state_chg([c EXCEPT !.mo.opstart_success = FALSE],
                   NM_OPSTATE_DISABLED, NM_AVSTATE_DEPENDENCY, NOCHG)

\* mutant: entering OFFLINE clears setattr_success, as the site manager does
chan_st_op_disabled_offline_on_enter_clears_attr(c) ==
  oml_mo_state_chg([c EXCEPT !.mo.setattr_success = FALSE, !.mo.opstart_success = FALSE],
                   NM_OPSTATE_DISABLED, NM_AVSTATE_OFF_LINE, NOCHG)

\* mutant: entering OFFLINE leaves opstart_success as it is
chan_st_op_disabled_offline_on_enter_keeps_opstart(c) ==
  oml_mo_state_chg(c, NM_OPSTATE_DISABLED, NM_AVSTATE_OFF_LINE, NOCHG)

chan_st_op_disabled_offline_on_enter(c) ==
  oml_mo_state_chg([c EXCEPT !.mo.opstart_success = FALSE],
                   NM_OPSTATE_DISABLED, NM_AVSTATE_OFF_LINE, NOCHG)

chan_st_op_enabled_on_enter(c) ==
  oml_mo_state_chg(c, NM_OPSTATE_ENABLED, NM_AVSTATE_OK, NOCHG)

\* mutant: ENABLED also admits NM_EV_BBTRANSC_ENABLED, which st_op_enabled
\* has no case for
nm_chan_in_event_mask_wide(state) ==
  CASE state = NM_CHAN_ST_OP_DISABLED_NOTINSTALLED ->
         { NM_EV_SW_ACT, NM_EV_OML_UP }
    [] state = NM_CHAN_ST_OP_DISABLED_DEPENDENCY ->
         { NM_EV_OML_UP, NM_EV_RX_SETATTR, NM_EV_RX_OPSTART, NM_EV_OPSTART_ACK,
           NM_EV_OPSTART_NACK, NM_EV_BBTRANSC_ENABLED, NM_EV_RCARRIER_ENABLED,
           NM_EV_BBTRANSC_DISABLED, NM_EV_RCARRIER_DISABLED }
    [] state = NM_CHAN_ST_OP_DISABLED_OFFLINE ->
         { NM_EV_OML_UP, NM_EV_RX_SETATTR, NM_EV_RX_OPSTART, NM_EV_OPSTART_ACK,
           NM_EV_OPSTART_NACK, NM_EV_BBTRANSC_DISABLED, NM_EV_RCARRIER_DISABLED }
    [] state = NM_CHAN_ST_OP_ENABLED ->
         { NM_EV_BBTRANSC_DISABLED, NM_EV_RCARRIER_DISABLED, NM_EV_DISABLE,
           NM_EV_BBTRANSC_ENABLED }

\* nm_chan_fsm_states[].in_event_mask
nm_chan_in_event_mask(state) ==
  CASE state = NM_CHAN_ST_OP_DISABLED_NOTINSTALLED ->
         { NM_EV_SW_ACT, NM_EV_OML_UP }
    [] state = NM_CHAN_ST_OP_DISABLED_DEPENDENCY ->
         { NM_EV_OML_UP, NM_EV_RX_SETATTR, NM_EV_RX_OPSTART, NM_EV_OPSTART_ACK,
           NM_EV_OPSTART_NACK, NM_EV_BBTRANSC_ENABLED, NM_EV_RCARRIER_ENABLED,
           NM_EV_BBTRANSC_DISABLED, NM_EV_RCARRIER_DISABLED }
    [] state = NM_CHAN_ST_OP_DISABLED_OFFLINE ->
         { NM_EV_OML_UP, NM_EV_RX_SETATTR, NM_EV_RX_OPSTART, NM_EV_OPSTART_ACK,
           NM_EV_OPSTART_NACK, NM_EV_BBTRANSC_DISABLED, NM_EV_RCARRIER_DISABLED }
    [] state = NM_CHAN_ST_OP_ENABLED ->
         { NM_EV_BBTRANSC_DISABLED, NM_EV_RCARRIER_DISABLED, NM_EV_DISABLE }

\* nm_chan_fsm_states[].out_state_mask
nm_chan_out_state_mask(state) ==
  CASE state = NM_CHAN_ST_OP_DISABLED_NOTINSTALLED ->
         { NM_CHAN_ST_OP_DISABLED_NOTINSTALLED, NM_CHAN_ST_OP_DISABLED_OFFLINE,
           NM_CHAN_ST_OP_DISABLED_DEPENDENCY }
    [] state = NM_CHAN_ST_OP_DISABLED_DEPENDENCY ->
         { NM_CHAN_ST_OP_DISABLED_NOTINSTALLED, NM_CHAN_ST_OP_DISABLED_OFFLINE,
           NM_CHAN_ST_OP_ENABLED }
    [] state = NM_CHAN_ST_OP_DISABLED_OFFLINE ->
         { NM_CHAN_ST_OP_DISABLED_NOTINSTALLED, NM_CHAN_ST_OP_ENABLED,
           NM_CHAN_ST_OP_DISABLED_DEPENDENCY }
    [] state = NM_CHAN_ST_OP_ENABLED ->
         { NM_CHAN_ST_OP_DISABLED_NOTINSTALLED, NM_CHAN_ST_OP_DISABLED_OFFLINE,
           NM_CHAN_ST_OP_DISABLED_DEPENDENCY }

\* nm_chan_fsm.allstate_event_mask
nm_chan_allstate_event_mask == { NM_EV_SHUTDOWN_START, NM_EV_SHUTDOWN_FINISH }

\* nm_chan_fsm_states[].onenter
nm_chan_onenter(c) ==
  CASE c.state = NM_CHAN_ST_OP_DISABLED_NOTINSTALLED -> chan_st_op_disabled_notinstalled_on_enter(c)
    [] c.state = NM_CHAN_ST_OP_DISABLED_DEPENDENCY -> chan_st_op_disabled_dependency_on_enter(c)
    [] c.state = NM_CHAN_ST_OP_DISABLED_OFFLINE -> chan_st_op_disabled_offline_on_enter(c)
    [] c.state = NM_CHAN_ST_OP_ENABLED -> chan_st_op_enabled_on_enter(c)

\* nm_chan_fsm_state_chg(fi, NEXT_STATE): osmo_fsm_inst_state_chg refuses a
\* state outside the current state's out_state_mask, else sets the state and
\* calls the new state's onenter (also when the state is re-entered)
nm_chan_fsm_state_chg(c, NEXT_STATE) ==
  IF NEXT_STATE \in nm_chan_out_state_mask(c.state)
    THEN nm_chan_onenter([c EXCEPT !.state = NEXT_STATE])
    ELSE c

\* mutant: the model never answers from inside the call
chan_bts_model_opstart_async(c, data) == Emit(c, << "MODEL_OPSTART" >>)

RECURSIVE nm_chan_dispatch(_, _, _)

\* bts_model_opstart(bts, &ts->mo, ts): the model activation routine; the
\* call is recorded, and a model that answers synchronously dispatches its
\* answer into the FSM before returning
chan_bts_model_opstart(c, data) ==
  LET c1 == Emit(c, << "MODEL_OPSTART" >>)
  IN CASE data.opstart = "sync_ack" -> nm_chan_dispatch(c1, NM_EV_OPSTART_ACK, NoData)
       [] data.opstart = "sync_nack" ->
            nm_chan_dispatch(c1, NM_EV_OPSTART_NACK, [NoData EXCEPT !.cause = data.cause])
       [] OTHER -> c1

\* case NM_EV_RX_SETATTR (the same code in DEPENDENCY and OFFLINE)
chan_rx_setattr(c, data) ==
  oml_fom_ack_nack_copy_msg([c EXCEPT !.mo.setattr_success = data.rc_ok], data.rc_ok)

\* mutant: the activation request is not gated on setattr_success
chan_rx_opstart_ungated(c, data) == chan_bts_model_opstart(c, data)

\* case NM_EV_RX_OPSTART (the same code in DEPENDENCY and OFFLINE)
chan_rx_opstart(c, data) ==
  IF ~c.mo.setattr_success
    THEN oml_mo_opstart_nack(c, NM_NACK_CANT_PERFORM)
    ELSE chan_bts_model_opstart(c, data)

\* case NM_EV_OPSTART_ACK
chan_opstart_ack(c) ==
  nm_chan_fsm_state_chg(oml_mo_opstart_ack([c EXCEPT !.mo.opstart_success = TRUE]),
                        NM_CHAN_ST_OP_ENABLED)

\* mutant: the nack is forwarded with a fixed cause
chan_opstart_nack_fixed_cause(c, data) ==
  oml_mo_opstart_nack([c EXCEPT !.mo.opstart_success = FALSE], NM_NACK_CANT_PERFORM)

\* case NM_EV_OPSTART_NACK
chan_opstart_nack(c, data) ==
  oml_mo_opstart_nack([c EXCEPT !.mo.opstart_success = FALSE], data.cause)

chan_st_op_disabled_notinstalled(c, event, data) ==
  CASE event = NM_EV_OML_UP -> oml_tx_state_changed(c)
    [] event = NM_EV_SW_ACT ->
         LET c1 == oml_mo_tx_sw_act_rep(c)
         IN IF ts_can_be_enabled(c1)
              THEN nm_chan_fsm_state_chg(c1, NM_CHAN_ST_OP_DISABLED_OFFLINE)
              ELSE nm_chan_fsm_state_chg(c1, NM_CHAN_ST_OP_DISABLED_DEPENDENCY)
    [] OTHER -> osmo_panic(c)

\* mutant: an enabled event leaves DEPENDENCY without re-evaluating
\* ts_can_be_enabled
chan_st_op_disabled_dependency_eager(c, event, data) ==
  CASE event = NM_EV_OML_UP -> oml_tx_state_changed(c)
    [] event = NM_EV_RX_SETATTR -> chan_rx_setattr(c, data)
    [] event = NM_EV_RX_OPSTART -> chan_rx_opstart(c, data)
    [] event = NM_EV_OPSTART_ACK -> chan_opstart_ack(c)
    [] event = NM_EV_OPSTART_NACK -> chan_opstart_nack(c, data)
    [] event \in { NM_EV_BBTRANSC_ENABLED, NM_EV_RCARRIER_ENABLED } ->
         nm_chan_fsm_state_chg(c, NM_CHAN_ST_OP_DISABLED_OFFLINE)
    [] event \in { NM_EV_BBTRANSC_DISABLED, NM_EV_RCARRIER_DISABLED } -> c
    [] OTHER -> osmo_panic(c)

chan_st_op_disabled_dependency(c, event, data) ==
  CASE event = NM_EV_OML_UP -> oml_tx_state_changed(c)
    [] event = NM_EV_RX_SETATTR -> chan_rx_setattr(c, data)
    [] event = NM_EV_RX_OPSTART -> chan_rx_opstart(c, data)
    [] event = NM_EV_OPSTART_ACK -> chan_opstart_ack(c)
    [] event = NM_EV_OPSTART_NACK -> chan_opstart_nack(c, data)
    [] event \in { NM_EV_BBTRANSC_ENABLED, NM_EV_RCARRIER_ENABLED } ->
         IF ts_can_be_enabled(c)
           THEN nm_chan_fsm_state_chg(c, NM_CHAN_ST_OP_DISABLED_OFFLINE)
           ELSE c
    [] event \in { NM_EV_BBTRANSC_DISABLED, NM_EV_RCARRIER_DISABLED } -> c
    [] OTHER -> osmo_panic(c)

chan_st_op_disabled_offline(c, event, data) ==
  CASE event = NM_EV_OML_UP -> oml_tx_state_changed(c)
    [] event = NM_EV_RX_SETATTR -> chan_rx_setattr(c, data)
    [] event = NM_EV_RX_OPSTART -> chan_rx_opstart(c, data)
    [] event = NM_EV_OPSTART_ACK -> chan_opstart_ack(c)
    [] event = NM_EV_OPSTART_NACK -> chan_opstart_nack(c, data)
    [] event \in { NM_EV_BBTRANSC_DISABLED, NM_EV_RCARRIER_DISABLED } ->
         IF ~ts_can_be_enabled(c)
           THEN nm_chan_fsm_state_chg(c, NM_CHAN_ST_OP_DISABLED_DEPENDENCY)
           ELSE c
    [] OTHER -> osmo_panic(c)

\* mutant: a disabled event leaves ENABLED without re-evaluating
\* ts_can_be_enabled
chan_st_op_enabled_eager(c, event, data) ==
  CASE event \in { NM_EV_BBTRANSC_DISABLED, NM_EV_RCARRIER_DISABLED } ->
         nm_chan_fsm_state_chg(c, NM_CHAN_ST_OP_DISABLED_DEPENDENCY)
    [] event = NM_EV_DISABLE -> nm_chan_fsm_state_chg(c, NM_CHAN_ST_OP_DISABLED_OFFLINE)
    [] OTHER -> osmo_panic(c)

chan_st_op_enabled(c, event, data) ==
  CASE event \in { NM_EV_BBTRANSC_DISABLED, NM_EV_RCARRIER_DISABLED } ->
         IF ~ts_can_be_enabled(c)
           THEN nm_chan_fsm_state_chg(c, NM_CHAN_ST_OP_DISABLED_DEPENDENCY)
           ELSE c
    [] event = NM_EV_DISABLE -> nm_chan_fsm_state_chg(c, NM_CHAN_ST_OP_DISABLED_OFFLINE)
    [] OTHER -> osmo_panic(c)

\* mutant: SHUTDOWN_START already takes the object out of service
nm_chan_allstate_disables(c, event, data) ==
  CASE event = NM_EV_SHUTDOWN_START ->
         oml_mo_state_chg(c, NM_OPSTATE_DISABLED, NOCHG, NM_STATE_SHUTDOWN)
    [] event = NM_EV_SHUTDOWN_FINISH ->
         nm_chan_fsm_state_chg(c, NM_CHAN_ST_OP_DISABLED_NOTINSTALLED)
    [] OTHER -> osmo_panic(c)

nm_chan_allstate(c, event, data) ==
  CASE event = NM_EV_SHUTDOWN_START -> oml_mo_state_chg(c, NOCHG, NOCHG, NM_STATE_SHUTDOWN)
    [] event = NM_EV_SHUTDOWN_FINISH ->
         nm_chan_fsm_state_chg(c, NM_CHAN_ST_OP_DISABLED_NOTINSTALLED)
    [] OTHER -> osmo_panic(c)

\* nm_chan_fsm_states[].action
nm_chan_action(c, event, data) ==
  CASE c.state = NM_CHAN_ST_OP_DISABLED_NOTINSTALLED -> chan_st_op_disabled_notinstalled(c, event, data)
    [] c.state = NM_CHAN_ST_OP_DISABLED_DEPENDENCY -> chan_st_op_disabled_dependency(c, event, data)
    [] c.state = NM_CHAN_ST_OP_DISABLED_OFFLINE -> chan_st_op_disabled_offline(c, event, data)
    [] c.state = NM_CHAN_ST_OP_ENABLED -> chan_st_op_enabled(c, event, data)

\* osmo_fsm_inst_dispatch(ts->mo.fi, event, data) on nm_chan_fsm: an all-state
\* event goes to the all-state action; an event outside the current state's
\* in_event_mask is refused (error logged, -1 returned, no handler runs);
\* any other event goes to the state's action
nm_chan_dispatch(c, event, data) ==
  IF event \in nm_chan_allstate_event_mask
    THEN nm_chan_allstate(c, event, data)
    ELSE IF event \notin nm_chan_in_event_mask(c.state)
      THEN Emit(c, << "LOG_ERROR_NOT_PERMITTED", event >>)
      ELSE nm_chan_action(c, event, data)

\* the value osmo_fsm_inst_dispatch returns for the event in that state
nm_chan_dispatch_rc(state, event) ==
  IF event \in nm_chan_allstate_event_mask \/ event \in nm_chan_in_event_mask(state)
    THEN 0 ELSE -1

\* ------------------------------------------------------------------------
\* NM BTS Site Manager FSM (nm_bts_sm_fsm).  A handler works on the record
\*   s = [state, mo, out, aborted]
\* ------------------------------------------------------------------------

\* the dispatches ev_dispatch_children makes, in order: the GPRS NSE first,
\* then every BTS of bts_list in list order
children_dispatches(event) ==
  << << "DISPATCH", << "nse" >>, event >> >> \o
  [ i \in 1..NumBts |-> << "DISPATCH", << "bts", i >>, event >> ]

ev_dispatch_children(s, event) ==
  [s EXCEPT !.out = @ \o children_dispatches(event)]

sm_st_op_disabled_notinstalled_on_enter(s) ==
  oml_mo_state_chg([s EXCEPT !.mo.setattr_success = FALSE,
                             !.mo.opstart_success = FALSE],
                   NM_OPSTATE_DISABLED, NM_AVSTATE_NOT_INSTALLED, NM_STATE_LOCKED)

sm_st_op_disabled_offline_on_enter(s) ==
  oml_mo_state_chg([s EXCEPT !.mo.setattr_success = FALSE,
                             !.mo.opstart_success = FALSE],
                   NM_OPSTATE_DISABLED, NM_AVSTATE_OFF_LINE, NOCHG)

sm_st_op_enabled_on_enter(s) ==
  oml_mo_state_chg(s, NM_OPSTATE_ENABLED, NM_AVSTATE_OK, NOCHG)

\* nm_bts_sm_fsm_states[].in_event_mask
nm_bts_sm_in_event_mask(state) ==
  CASE state = NM_BTS_SM_ST_OP_DISABLED_NOTINSTALLED -> { NM_EV_OML_UP }
    [] state = NM_BTS_SM_ST_OP_DISABLED_OFFLINE ->
         { NM_EV_RX_SETATTR, NM_EV_RX_OPSTART, NM_EV_OPSTART_ACK, NM_EV_OPSTART_NACK }
    [] state = NM_BTS_SM_ST_OP_ENABLED -> {}

\* nm_bts_sm_fsm_states[].out_state_mask
nm_bts_sm_out_state_mask(state) ==
  CASE state = NM_BTS_SM_ST_OP_DISABLED_NOTINSTALLED ->
         { NM_BTS_SM_ST_OP_DISABLED_NOTINSTALLED, NM_BTS_SM_ST_OP_DISABLED_OFFLINE }
    [] state = NM_BTS_SM_ST_OP_DISABLED_OFFLINE ->
         { NM_BTS_SM_ST_OP_DISABLED_NOTINSTALLED, NM_BTS_SM_ST_OP_ENABLED }
    [] state = NM_BTS_SM_ST_OP_ENABLED -> { NM_BTS_SM_ST_OP_DISABLED_NOTINSTALLED }

\* nm_bts_sm_fsm.allstate_event_mask
nm_bts_sm_allstate_event_mask == { NM_EV_SHUTDOWN_START, NM_EV_SHUTDOWN_FINISH }

\* nm_bts_sm_fsm_states[].onenter
nm_bts_sm_onenter(s) ==
  CASE s.state = NM_BTS_SM_ST_OP_DISABLED_NOTINSTALLED -> sm_st_op_disabled_notinstalled_on_enter(s)
    [] s.state = NM_BTS_SM_ST_OP_DISABLED_OFFLINE -> sm_st_op_disabled_offline_on_enter(s)
    [] s.state = NM_BTS_SM_ST_OP_ENABLED -> sm_st_op_enabled_on_enter(s)

\* nm_bts_sm_fsm_state_chg(fi, NEXT_STATE)
nm_bts_sm_fsm_state_chg(s, NEXT_STATE) ==
  IF NEXT_STATE \in nm_bts_sm_out_state_mask(s.state)
    THEN nm_bts_sm_onenter([s EXCEPT !.state = NEXT_STATE])
    ELSE s

RECURSIVE nm_bts_sm_dispatch(_, _, _)

\* bts_model_opstart(NULL, &site_mgr->mo, site_mgr)
sm_bts_model_opstart(s, data) ==
  LET s1 == Emit(s, << "MODEL_OPSTART" >>)
  IN CASE data.opstart = "sync_ack" -> nm_bts_sm_dispatch(s1, NM_EV_OPSTART_ACK, NoData)
       [] data.opstart = "sync_nack" ->
            nm_bts_sm_dispatch(s1, NM_EV_OPSTART_NACK, [NoData EXCEPT !.cause = data.cause])
       [] OTHER -> s1

\* mutant: the children are told before the site manager enters OFFLINE
sm_st_op_disabled_notinstalled_children_first(s, event, data) ==
  CASE event = NM_EV_OML_UP ->
         nm_bts_sm_fsm_state_chg(ev_dispatch_children(oml_mo_tx_sw_act_rep(s), event),
                                 NM_BTS_SM_ST_OP_DISABLED_OFFLINE)
    [] OTHER -> osmo_panic(s)

sm_st_op_disabled_notinstalled(s, event, data) ==
  CASE event = NM_EV_OML_UP ->
         ev_dispatch_children(
           nm_bts_sm_fsm_state_chg(oml_mo_tx_sw_act_rep(s), NM_BTS_SM_ST_OP_DISABLED_OFFLINE),
           event)
    [] OTHER -> osmo_panic(s)

\* mutant: the activation gate that the source compiles out (#if 0) is active
sm_st_op_disabled_offline_gated(s, event, data) ==
  CASE event = NM_EV_RX_SETATTR ->
         oml_fom_ack_nack_copy_msg([s EXCEPT !.mo.setattr_success = TRUE], TRUE)
    [] event = NM_EV_RX_OPSTART ->
         IF ~s.mo.setattr_success
           THEN oml_mo_opstart_nack(s, NM_NACK_CANT_PERFORM)
           ELSE sm_bts_model_opstart(s, data)
    [] event = NM_EV_OPSTART_ACK ->
         nm_bts_sm_fsm_state_chg(oml_mo_opstart_ack([s EXCEPT !.mo.opstart_success = TRUE]),
                                 NM_BTS_SM_ST_OP_ENABLED)
    [] event = NM_EV_OPSTART_NACK ->
         oml_mo_opstart_nack([s EXCEPT !.mo.opstart_success = FALSE], data.cause)
    [] OTHER -> osmo_panic(s)

sm_st_op_disabled_offline(s, event, data) ==
  CASE event = NM_EV_RX_SETATTR ->
         \* rc = 0: no bts_model_apply_oml() for the site manager
         oml_fom_ack_nack_copy_msg([s EXCEPT !.mo.setattr_success = TRUE], TRUE)
    [] event = NM_EV_RX_OPSTART -> sm_bts_model_opstart(s, data)
    [] event = NM_EV_OPSTART_ACK ->
         nm_bts_sm_fsm_state_chg(oml_mo_opstart_ack([s EXCEPT !.mo.opstart_success = TRUE]),
                                 NM_BTS_SM_ST_OP_ENABLED)
    [] event = NM_EV_OPSTART_NACK ->
         oml_mo_opstart_nack([s EXCEPT !.mo.opstart_success = FALSE], data.cause)
    [] OTHER -> osmo_panic(s)

sm_st_op_enabled(s, event, data) == s

\* mutant: on SHUTDOWN_FINISH the site manager leaves its state first and
\* tells the children afterwards
nm_bts_sm_allstate_state_first(s, event, data) ==
  CASE event = NM_EV_SHUTDOWN_START ->
         ev_dispatch_children(oml_mo_state_chg(s, NOCHG, NOCHG, NM_STATE_SHUTDOWN), event)
    [] event = NM_EV_SHUTDOWN_FINISH ->
         ev_dispatch_children(
           nm_bts_sm_fsm_state_chg(s, NM_BTS_SM_ST_OP_DISABLED_NOTINSTALLED), event)
    [] OTHER -> osmo_panic(s)

nm_bts_sm_allstate(s, event, data) ==
  CASE event = NM_EV_SHUTDOWN_START ->
         ev_dispatch_children(oml_mo_state_chg(s, NOCHG, NOCHG, NM_STATE_SHUTDOWN), event)
    [] event = NM_EV_SHUTDOWN_FINISH ->
         nm_bts_sm_fsm_state_chg(ev_dispatch_children(s, event),
                                 NM_BTS_SM_ST_OP_DISABLED_NOTINSTALLED)
    [] OTHER -> osmo_panic(s)

\* nm_bts_sm_fsm_states[].action
nm_bts_sm_action(s, event, data) ==
  CASE s.state = NM_BTS_SM_ST_OP_DISABLED_NOTINSTALLED -> sm_st_op_disabled_notinstalled(s, event, data)
    [] s.state = NM_BTS_SM_ST_OP_DISABLED_OFFLINE -> sm_st_op_disabled_offline(s, event, data)
    [] s.state = NM_BTS_SM_ST_OP_ENABLED -> sm_st_op_enabled(s, event, data)

\* osmo_fsm_inst_dispatch(site_mgr->mo.fi, event, data) on nm_bts_sm_fsm
nm_bts_sm_dispatch(s, event, data) ==
  IF event \in nm_bts_sm_allstate_event_mask
    THEN nm_bts_sm_allstate(s, event, data)
    ELSE IF event \notin nm_bts_sm_in_event_mask(s.state)
      THEN Emit(s, << "LOG_ERROR_NOT_PERMITTED", event >>)
      ELSE nm_bts_sm_action(s, event, data)

nm_bts_sm_dispatch_rc(state, event) ==
  IF event \in nm_bts_sm_allstate_event_mask \/ event \in nm_bts_sm_in_event_mask(state)
    THEN 0 ELSE -1

\* ------------------------------------------------------------------------
\* Uplink measurement processing (measurement.c)
\* ------------------------------------------------------------------------
\* ts45008_dtx_tchh_fn_map: the frame numbers (mod 104) whose entry is 1
ts45008_dtx_tchh_fn_map == { 0, 52, 14, 66 }

MEASUREMENT_DUMMY_BER == 10000
MEASUREMENT_DUMMY_IRSSI == 109

\* mutant: a missing block counts as one received without bit errors
measurement_dummy_lossless ==
  [ ber10k |-> 0, ta_offs_256bits |-> 0, ci_cb |-> 0,
    is_sub |-> FALSE, inv_rssi |-> MEASUREMENT_DUMMY_IRSSI ]

measurement_dummy ==
  [ ber10k |-> MEASUREMENT_DUMMY_BER, ta_offs_256bits |-> 0, ci_cb |-> 0,
    is_sub |-> FALSE, inv_rssi |-> MEASUREMENT_DUMMY_IRSSI ]

\* mutant: no frame position belongs to the SUB set
ts45008_83_is_sub_never(l, fn) == FALSE

\* bool ts45008_83_is_sub(lchan, fn)
ts45008_83_is_sub(l, fn) ==
  LET fn104 == fn % 104
  IN IF l.tch_mode = "SPEECH_AMR" THEN FALSE
     ELSE CASE l.type = "TCH_F" ->
                 (CASE l.tch_mode \in { "SPEECH_V1", "SPEECH_EFR" } -> fn104 = 52
                    [] l.tch_mode = "SIGN" -> TRUE
                    [] OTHER -> FALSE)
            [] l.type = "TCH_H" ->
                 (CASE l.tch_mode = "SPEECH_V1" -> fn104 \in ts45008_dtx_tchh_fn_map
                    [] l.tch_mode = "SIGN" -> TRUE
                    [] OTHER -> FALSE)
            [] l.type = "SDCCH" -> TRUE
            [] OTHER -> FALSE

\* the lookup tables, indexed from 1 (timeslot or sub-slot number + 1)
tchf_meas_rep_fn104_by_ts == << 90, 103, 12, 25, 38, 51, 64, 77 >>
tchh0_meas_rep_fn104_by_ts == << 90, 90, 12, 12, 38, 38, 64, 64 >>
tchh1_meas_rep_fn104_by_ts == << 103, 103, 25, 25, 51, 51, 77, 77 >>
sdcch8_meas_rep_fn102_by_ss == << 66, 70, 74, 78, 98, 0, 4, 8 >>
sdcch4_meas_rep_fn102_by_ss == << 88, 92, 6, 10 >>

\* mutant: two reporting frames are translated to the same period end
translate_tch_meas_rep_fn104_twice(fn_mod) ==
  CASE fn_mod = 25 -> 103
    [] fn_mod = 38 -> 12
    [] fn_mod = 51 -> 12
    [] fn_mod = 64 -> 38
    [] fn_mod = 77 -> 51
    [] fn_mod = 90 -> 64
    [] fn_mod = 103 -> 77
    [] fn_mod = 12 -> 90
    [] OTHER -> 0

translate_tch_meas_rep_fn104(fn_mod) ==
  CASE fn_mod = 25 -> 103
    [] fn_mod = 38 -> 12
    [] fn_mod = 51 -> 25
    [] fn_mod = 64 -> 38
    [] fn_mod = 77 -> 51
    [] fn_mod = 90 -> 64
    [] fn_mod = 103 -> 77
    [] fn_mod = 12 -> 90
    [] OTHER -> 0

\* int is_meas_complete(lchan, fn): TRUE for rc = 1
is_meas_complete(l, fn) ==
  CASE l.pchan = "TCH_F" ->
         tchf_meas_rep_fn104_by_ts[l.ts_nr + 1] = translate_tch_meas_rep_fn104(fn % 104)
    [] l.pchan = "TCH_H" ->
         (IF l.nr = 0 THEN tchh0_meas_rep_fn104_by_ts ELSE tchh1_meas_rep_fn104_by_ts)[l.ts_nr + 1]
           = translate_tch_meas_rep_fn104(fn % 104)
    [] l.pchan \in { "SDCCH8_SACCH8C", "SDCCH8_SACCH8C_CBCH" } ->
         sdcch8_meas_rep_fn102_by_ss[l.nr + 1] = fn % 102
    [] l.pchan \in { "CCCH_SDCCH4", "CCCH_SDCCH4_CBCH" } ->
         sdcch4_meas_rep_fn102_by_ss[l.nr + 1] = fn % 102
    [] OTHER -> FALSE

modulus_by_lchan(l) ==
  CASE l.pchan \in { "TCH_F", "TCH_H" } -> 104
    [] l.pchan \in { "SDCCH8_SACCH8C", "SDCCH8_SACCH8C_CBCH",
                     "CCCH_SDCCH4", "CCCH_SDCCH4_CBCH" } -> 102
    [] OTHER -> 1

\* mutant: the worst quality class is never reported
ber10k_to_rxqual_capped(ber10k) ==
  CASE ber10k < 20 -> 0
    [] ber10k < 40 -> 1
    [] ber10k < 80 -> 2
    [] ber10k < 160 -> 3
    [] ber10k < 320 -> 4
    [] ber10k < 640 -> 5
    [] OTHER -> 6

ber10k_to_rxqual(ber10k) ==
  CASE ber10k < 20 -> 0
    [] ber10k < 40 -> 1
    [] ber10k < 80 -> 2
    [] ber10k < 160 -> 3
    [] ber10k < 320 -> 4
    [] ber10k < 640 -> 5
    [] ber10k < 1280 -> 6
    [] OTHER -> 7

\* libosmocore: RxLev of a level in dBm, clamped to 0..63
dbm2rxlev(dbm) ==
  LET rxlev == dbm + 110
  IN IF rxlev > 63 THEN 63 ELSE IF rxlev < 0 THEN 0 ELSE rxlev

\* uint32_t and uint64_t values are kept as << hi, lo >>, standing for
\* hi * 2^16 + lo; wide(hi, lo) is the form with 0 <= lo < 2^16
wide(hi, lo) == << hi + lo \div 65536, lo % 65536 >>
wide_add(x, y) == << x[1] + y[1], x[2] + y[2] >>
wide_le(x, y) == x[1] < y[1] \/ (x[1] = y[1] /\ x[2] <= y[2])

\* the exact square of a, 0 <= a < 2^20
wide_sq(a) ==
  LET ah == a \div 256
      al == a % 256
  IN wide(ah * ah, 512 * ah * al + al * al)

\* uint64_t x / n for a small divisor n
wide_div_norm(x, n) == wide(x[1] \div n, ((x[1] % n) * 65536 + x[2]) \div n)
wide_div(x, n) == wide_div_norm(wide(x[1], x[2]), n)

\* storing a value in a uint32_t
to_uint32(x) == << x[1] % 65536, x[2] >>

\* x <= UINT32_MAX
fits_uint32(x) == wide(x[1], x[2])[1] < 65536

\* libosmocore: floor of the square root of a 32-bit value, found bit by bit
\* from the most significant bit of the root
RECURSIVE isqrt_bits(_, _, _)
isqrt_bits(x, r, bit) ==
  IF bit = 0 THEN r
  ELSE IF wide_le(wide_sq(r + bit), x) THEN isqrt_bits(x, r + bit, bit \div 2)
  ELSE isqrt_bits(x, r, bit \div 2)

osmo_isqrt32(x) == isqrt_bits(x, 0, 32768)

\* C division of unsigned values; a division by zero is undefined, the
\* caller records it and the quotient is not used
udiv(a, b) == IF b = 0 THEN 0 ELSE a \div b

\* C integer division of a signed dividend by a positive divisor: towards zero
c_div(a, b) == IF a >= 0 THEN a \div b ELSE -((-a) \div b)

\* storing a value in an int16_t / uint8_t field
to_int16(x) == ((x + 32768) % 65536) - 32768
to_uint8(x) == x % 256

\* mutant: the samples received are taken for the samples expected
lchan_meas_num_expected_received(l) == Len(l.meas.uplink)

lchan_meas_num_expected(l) ==
  CASE l.pchan = "TCH_F" -> 25
    [] l.pchan = "TCH_H" -> (IF l.tch_mode = "SIGN" THEN 13 ELSE 25)
    [] l.pchan \in { "SDCCH8_SACCH8C", "SDCCH8_SACCH8C_CBCH" } -> 3
    [] l.pchan \in { "CCCH_SDCCH4", "CCCH_SDCCH4_CBCH" } -> 3
    [] OTHER -> Len(l.meas.uplink)

\* called for tch_mode # SPEECH_AMR only (OSMO_ASSERT)
lchan_meas_sub_num_expected(l) ==
  CASE l.pchan = "TCH_F" -> (IF l.tch_mode = "SIGN" THEN 25 ELSE 2)
    [] l.pchan = "TCH_H" -> (IF l.tch_mode = "SIGN" THEN 13 ELSE 3)
    [] l.pchan \in { "SDCCH8_SACCH8C", "SDCCH8_SACCH8C_CBCH" } -> 3
    [] l.pchan \in { "CCCH_SDCCH4", "CCCH_SDCCH4_CBCH" } -> 3
    [] OTHER -> 0

\* ARRAY_SIZE(lchan->meas.uplink), the capacity of the sample buffer: room
\* for every block of a period
MAX_NUM_UL_MEAS == 104

\* the capacity of a buffer scaled down
MaxUlMeas == 4

\* (uint32_t) 0xffffffff: no frame number yet
LCHAN_FN_DUMMY == -1

\* lchan_meas_reset: memset(&lchan->meas, 0), last_fn = LCHAN_FN_DUMMY
lchan_meas_reset(l) ==
  [l EXCEPT !.meas =
     [ uplink |-> << >>, last_fn |-> LCHAN_FN_DUMMY, flags |-> {},
       ul_res |-> [ full |-> [ rx_lev |-> 0, rx_qual |-> 0 ],
                    sub |-> [ rx_lev |-> 0, rx_qual |-> 0 ] ],
       ms_toa256 |-> 0, ul_ci_cb_full |-> 0, ul_ci_cb_sub |-> 0,
       ext |-> [ toa256_min |-> 0, toa256_max |-> 0, toa256_std_dev |-> 0 ],
       l1_info |-> [ ms_pwr |-> 0, fpc_epc |-> 0, srr_sro |-> 0, ta |-> 0 ],
       res_nr |-> 0 ]]

\* mutant: the caller's SUB mark is dropped, the frame position alone decides
lchan_new_ul_meas_position_only(l, ulm, fn) ==
  IF Len(l.meas.uplink) >= l.uplink_size
    THEN [ lchan |-> l, rc |-> "ENOSPC" ]
    ELSE [ lchan |-> [l EXCEPT !.meas.uplink =
                        Append(@, [ulm EXCEPT !.is_sub = ts45008_83_is_sub(l, fn)]),
                                !.meas.last_fn = fn],
           rc |-> "0" ]

\* int lchan_new_ul_meas(lchan, ulm, fn)
lchan_new_ul_meas(l, ulm, fn) ==
  IF Len(l.meas.uplink) >= l.uplink_size
    THEN [ lchan |-> l, rc |-> "ENOSPC" ]
    ELSE [ lchan |-> [l EXCEPT !.meas.uplink =
                        Append(@, IF ~ulm.is_sub
                                    THEN [ulm EXCEPT !.is_sub = ts45008_83_is_sub(l, fn)]
                                    ELSE ulm),
                                !.meas.last_fn = fn],
           rc |-> "0" ]

\* the locals of lchan_meas_check_compute before its first loop iteration
meas_locals_zero ==
  [ ber_full_sum |-> 0, irssi_full_sum |-> 0, ci_full_sum |-> 0,
    ber_sub_sum |-> 0, irssi_sub_sum |-> 0, ci_sub_sum |-> 0, ta256b_sum |-> 0,
    num_meas_sub |-> 0, num_meas_sub_actual |-> 0, num_meas_sub_subst |-> 0,
    num_meas_sub_expect |-> 0, num_ul_meas_actual |-> 0, num_ul_meas_subst |-> 0,
    num_ul_meas_expect |-> 0, num_ul_meas_excess |-> 0,
    div0 |-> FALSE ]   \* a division by zero was executed

\* lchan_meas_check_compute, "step 1: add up": iterations i .. num_ul_meas-1
\* over the sums `a`, in the order of the loop; more than one iteration is
\* evaluated as the first half followed by the second, and the sums are
\* looked at on entry so that they are computed before the loop goes on
RECURSIVE meas_add_up(_, _, _, _)
meas_add_up(l, i, num_ul_meas, a) ==
  IF i >= num_ul_meas \/ a.num_ul_meas_expect = 0 THEN a
  ELSE IF num_ul_meas - i > 1
    THEN meas_add_up(l, (i + num_ul_meas) \div 2, num_ul_meas,
                     meas_add_up(l, i, (i + num_ul_meas) \div 2, a))
  ELSE
    LET real == i < Len(l.meas.uplink)
        m == IF real THEN l.meas.uplink[i + a.num_ul_meas_excess + 1] ELSE measurement_dummy
        is_sub == IF real THEN m.is_sub
                  ELSE l.tch_mode # "SPEECH_AMR" /\ a.num_meas_sub <= i
        a1 == IF real
                THEN [a EXCEPT !.irssi_sub_sum = IF m.is_sub THEN @ + m.inv_rssi ELSE @,
                               !.ci_sub_sum = IF m.is_sub THEN @ + m.ci_cb ELSE @,
                               !.num_meas_sub_actual = IF m.is_sub THEN @ + 1 ELSE @,
                               !.irssi_full_sum = @ + m.inv_rssi,
                               !.ta256b_sum = @ + m.ta_offs_256bits,
                               !.ci_full_sum = @ + m.ci_cb,
                               !.num_ul_meas_actual = @ + 1]
                ELSE [a EXCEPT !.num_meas_sub_subst = IF is_sub THEN @ + 1 ELSE @,
                               !.num_ul_meas_subst = @ + 1]
        a2 == [a1 EXCEPT !.ber_full_sum = @ + m.ber10k,
                         !.num_meas_sub = IF is_sub THEN @ + 1 ELSE @,
                         !.ber_sub_sum = IF is_sub THEN @ + m.ber10k ELSE @]
    IN meas_add_up(l, i + 1, num_ul_meas, a2)

\* mutant: the timing offsets are squared as they are, the mean is not
\* subtracted
meas_ext_step_raw(l, m, e) ==
  LET diff_abs == IF m.ta_offs_256bits < 0 THEN -m.ta_offs_256bits ELSE m.ta_offs_256bits
  IN [ sq_diff_sum |-> wide_add(e.sq_diff_sum, to_uint32(wide_sq(diff_abs))),
       toa256_max |-> e.toa256_max,
       toa256_min |-> IF m.ta_offs_256bits < e.toa256_min
                        THEN m.ta_offs_256bits ELSE e.toa256_min ]

\* lchan_meas_compute_extended, one iteration of step 1 for sample m, once
\* toa256_max is settled: the squared difference is added, toa256_min updated
meas_ext_step(l, m, e) ==
  LET diff == m.ta_offs_256bits - l.meas.ms_toa256
      diff_abs == IF diff < 0 THEN -diff ELSE diff
      \* uint32_t diff_squared = diff_abs * diff_abs
      diff_squared == to_uint32(wide_sq(diff_abs))
  IN [ sq_diff_sum |-> wide_add(e.sq_diff_sum, diff_squared),
       toa256_max |-> e.toa256_max,
       toa256_min |-> IF m.ta_offs_256bits < e.toa256_min
                        THEN m.ta_offs_256bits ELSE e.toa256_min ]

INT16_MAX == 32767
INT16_MIN == -32768

\* lchan_meas_compute_extended, step 1: iterations i .. num_ul_meas-1 over
\* [ sq_diff_sum, toa256_min, toa256_max ], in the order of the loop; more than
\* one iteration is evaluated as the first half followed by the second, and
\* the maximum (an int16_t) is looked at on entry so that the three values
\* are computed before the loop goes on
RECURSIVE meas_ext_loop(_, _, _, _, _)
meas_ext_loop(l, i, num_ul_meas, excess, e) ==
  IF i >= num_ul_meas \/ e.toa256_max > INT16_MAX THEN e
  ELSE IF num_ul_meas - i > 1
    THEN meas_ext_loop(l, (i + num_ul_meas) \div 2, num_ul_meas, excess,
                       meas_ext_loop(l, i, (i + num_ul_meas) \div 2, excess, e))
  ELSE IF l.meas.uplink[i + excess + 1].ta_offs_256bits > e.toa256_max
    THEN meas_ext_loop(l, i + 1, num_ul_meas, excess,
           meas_ext_step(l, l.meas.uplink[i + excess + 1],
                         [e EXCEPT !.toa256_max = l.meas.uplink[i + excess + 1].ta_offs_256bits]))
    ELSE meas_ext_loop(l, i + 1, num_ul_meas, excess,
           meas_ext_step(l, l.meas.uplink[i + excess + 1], e))

\* mutant: the sum of the squared differences is taken for their mean
meas_ext_variance_sum(sq_diff_sum, num_ul_meas) == sq_diff_sum

\* lchan_meas_compute_extended, step 2: the variance
meas_ext_variance(sq_diff_sum, num_ul_meas) == wide_div(sq_diff_sum, num_ul_meas)

\* lchan_meas_compute_extended from OSMO_ASSERT(sq_diff_sum <= UINT32_MAX) on:
\* the process aborts, or the standard deviation is stored
meas_ext_finish(l, e, variance) ==
  IF ~fits_uint32(variance)
    THEN [ lchan |-> [l EXCEPT !.meas.ext.toa256_min = e.toa256_min,
                               !.meas.ext.toa256_max = e.toa256_max],
           abort |-> TRUE, div0 |-> FALSE ]
    ELSE [ lchan |-> [l EXCEPT !.meas.ext = [ toa256_min |-> e.toa256_min,
                                              toa256_max |-> e.toa256_max,
                                              toa256_std_dev |-> osmo_isqrt32(variance) ],
                               !.meas.flags = @ \cup { "LC_UL_M_F_OSMO_EXT_VALID" }],
           abort |-> FALSE, div0 |-> FALSE ]

\* lchan_meas_compute_extended, steps 2 and 3: variance, standard deviation
meas_ext_store(l, num_ul_meas, e) ==
  IF num_ul_meas = 0
    THEN [ lchan |-> [l EXCEPT !.meas.ext.toa256_min = e.toa256_min,
                               !.meas.ext.toa256_max = e.toa256_max],
           abort |-> FALSE, div0 |-> TRUE ]
    ELSE meas_ext_finish(l, e, meas_ext_variance(e.sq_diff_sum, num_ul_meas))

\* mutant: with more samples than expected the oldest ones are taken
lchan_meas_compute_extended_oldest(l) ==
  IF Len(l.meas.uplink) = 0 THEN [ lchan |-> l, abort |-> FALSE, div0 |-> FALSE ]
  ELSE
    LET num_ul_meas_expect == lchan_meas_num_expected(l)
        over == Len(l.meas.uplink) > num_ul_meas_expect
        num_ul_meas == IF over THEN num_ul_meas_expect ELSE Len(l.meas.uplink)
    IN meas_ext_store(l, num_ul_meas,
         meas_ext_loop(l, 0, num_ul_meas, 0,
                       [ sq_diff_sum |-> << 0, 0 >>, toa256_min |-> INT16_MAX,
                         toa256_max |-> INT16_MIN ]))

\* static void lchan_meas_compute_extended(lchan): the channel afterwards
\* and whether OSMO_ASSERT(sq_diff_sum <= UINT32_MAX) aborted the process
lchan_meas_compute_extended(l) ==
  IF Len(l.meas.uplink) = 0 THEN [ lchan |-> l, abort |-> FALSE, div0 |-> FALSE ]
  ELSE
    LET num_ul_meas_expect == lchan_meas_num_expected(l)
        over == Len(l.meas.uplink) > num_ul_meas_expect
        num_ul_meas == IF over THEN num_ul_meas_expect ELSE Len(l.meas.uplink)
        num_ul_meas_excess == IF over THEN Len(l.meas.uplink) - num_ul_meas_expect ELSE 0
    IN meas_ext_store(l, num_ul_meas,
         meas_ext_loop(l, 0, num_ul_meas, num_ul_meas_excess,
                       [ sq_diff_sum |-> << 0, 0 >>, toa256_min |-> INT16_MAX,
                         toa256_max |-> INT16_MIN ]))

\* lchan_meas_check_compute after lchan_meas_compute_extended returned x:
\* num_ul_meas = 0, return 1
meas_period_done(x, loc) ==
  [ lchan |-> IF x.abort THEN x.lchan ELSE [x.lchan EXCEPT !.meas.uplink = << >>],
    rc |-> 1, loc |-> [loc EXCEPT !.div0 = @ \/ x.div0], abort |-> x.abort ]

\* lchan_meas_check_compute, "step 2: divide" and "store results", on the
\* sums `a` of step 1
meas_divide_store(l, a) ==
  LET ber_full == udiv(a.ber_full_sum, a.num_ul_meas_expect)
      irssi_full == IF a.irssi_full_sum = 0 THEN MEASUREMENT_DUMMY_IRSSI
                    ELSE udiv(a.irssi_full_sum, a.num_ul_meas_actual)
      ta256b == IF a.num_ul_meas_actual = 0 THEN l.meas.ms_toa256
                ELSE c_div(a.ta256b_sum, a.num_ul_meas_actual)
      ci_full == IF a.num_ul_meas_actual = 0 THEN l.meas.ul_ci_cb_full
                 ELSE c_div(a.ci_full_sum, a.num_ul_meas_actual)
      ber_sub == IF a.num_meas_sub = 0 THEN MEASUREMENT_DUMMY_BER
                 ELSE a.ber_sub_sum \div a.num_meas_sub
      irssi_sub == IF a.num_meas_sub_actual = 0 THEN MEASUREMENT_DUMMY_IRSSI
                   ELSE a.irssi_sub_sum \div a.num_meas_sub_actual
      ci_sub == IF a.num_meas_sub_actual = 0 THEN l.meas.ul_ci_cb_sub
                ELSE c_div(a.ci_sub_sum, a.num_meas_sub_actual)
      l1 == [l EXCEPT !.meas.ul_res =
                        [ full |-> [ rx_lev |-> to_uint8(dbm2rxlev(-irssi_full)),
                                     rx_qual |-> ber10k_to_rxqual(ber_full) ],
                          sub |-> [ rx_lev |-> to_uint8(dbm2rxlev(-irssi_sub)),
                                    rx_qual |-> ber10k_to_rxqual(ber_sub) ] ],
                      !.meas.ms_toa256 = to_int16(ta256b),
                      !.meas.ul_ci_cb_full = to_int16(ci_full),
                      !.meas.ul_ci_cb_sub = to_int16(ci_sub),
                      !.meas.flags = @ \cup { "LC_UL_M_F_RES_VALID" }]
  IN meas_period_done(lchan_meas_compute_extended(l1),
       [a EXCEPT !.div0 = \/ a.num_ul_meas_expect = 0
                           \/ (a.irssi_full_sum # 0 /\ a.num_ul_meas_actual = 0),
                 !.ber_full_sum = ber_full, !.irssi_full_sum = irssi_full,
                 !.ta256b_sum = ta256b, !.ci_full_sum = ci_full,
                 !.ber_sub_sum = ber_sub, !.irssi_sub_sum = irssi_sub,
                 !.ci_sub_sum = ci_sub])

\* mutant: a period that has just been computed is not computed again
lchan_meas_check_compute_once(l, fn) ==
  IF ~is_meas_complete(l, fn)
       \/ (Len(l.meas.uplink) = 0 /\ "LC_UL_M_F_RES_VALID" \in l.meas.flags)
    THEN [ lchan |-> l, rc |-> 0, loc |-> meas_locals_zero, abort |-> FALSE ]
  ELSE
    LET num_ul_meas_expect == lchan_meas_num_expected(l)
        num_meas_sub_expect == IF l.tch_mode # "SPEECH_AMR"
                                 THEN lchan_meas_sub_num_expected(l) ELSE 1
        num_ul_meas_excess == IF Len(l.meas.uplink) > num_ul_meas_expect
                                THEN Len(l.meas.uplink) - num_ul_meas_expect ELSE 0
    IN meas_divide_store(l,
         meas_add_up(l, 0, num_ul_meas_expect,
                     [meas_locals_zero EXCEPT !.num_meas_sub_expect = num_meas_sub_expect,
                                              !.num_ul_meas_expect = num_ul_meas_expect,
                                              !.num_ul_meas_excess = num_ul_meas_excess]))

\* mutant: away from the end of a period the stored results are invalidated
lchan_meas_check_compute_invalidates(l, fn) ==
  IF ~is_meas_complete(l, fn)
    THEN [ lchan |-> [l EXCEPT !.meas.flags = {}], rc |-> 0, loc |-> meas_locals_zero, abort |-> FALSE ]
    ELSE lchan_meas_check_compute_once(l, fn)

\* int lchan_meas_check_compute(lchan, fn): the channel afterwards, the
\* return value and the locals as logged
lchan_meas_check_compute(l, fn) ==
  IF ~is_meas_complete(l, fn)
    THEN [ lchan |-> l, rc |-> 0, loc |-> meas_locals_zero, abort |-> FALSE ]
  ELSE
    LET num_ul_meas_expect == lchan_meas_num_expected(l)
        num_meas_sub_expect == IF l.tch_mode # "SPEECH_AMR"
                                 THEN lchan_meas_sub_num_expected(l) ELSE 1
        num_ul_meas_excess == IF Len(l.meas.uplink) > num_ul_meas_expect
                                THEN Len(l.meas.uplink) - num_ul_meas_expect ELSE 0
        num_ul_meas == num_ul_meas_expect
    IN meas_divide_store(l,
         meas_add_up(l, 0, num_ul_meas,
                     [meas_locals_zero EXCEPT !.num_meas_sub_expect = num_meas_sub_expect,
                                              !.num_ul_meas_expect = num_ul_meas_expect,
                                              !.num_ul_meas_excess = num_ul_meas_excess]))

\* mutant: a sample that found no room ends the call
lchan_meas_process_measurement_stops(l, ulm, fn) ==
  LET n == lchan_new_ul_meas(l, ulm, fn)
      with_rc_new(c) == [ lchan |-> c.lchan, rc |-> c.rc, loc |-> c.loc, rc_new |-> n.rc,
                          abort |-> c.abort ]
  IN IF n.rc = "ENOSPC"
       THEN with_rc_new([ lchan |-> l, rc |-> 0, loc |-> meas_locals_zero, abort |-> FALSE ])
       ELSE with_rc_new(lchan_meas_check_compute(n.lchan, fn))

\* int lchan_meas_process_measurement(lchan, ulm, fn)
lchan_meas_process_measurement(l, ulm, fn) ==
  LET n == lchan_new_ul_meas(l, ulm, fn)
      with_rc_new(c) == [ lchan |-> c.lchan, rc |-> c.rc, loc |-> c.loc, rc_new |-> n.rc,
                          abort |-> c.abort ]
  IN with_rc_new(lchan_meas_check_compute(n.lchan, fn))

\* static inline uint8_t ms_to2rsl(lchan, ta)
ms_to2rsl(l, ta) == IF l.ms_t_offs >= 0 THEN to_uint8(l.ms_t_offs) ELSE to_uint8(l.p_offs - ta)

\* static inline bool ms_to_valid(lchan)
ms_to_valid(l) == l.ms_t_offs >= 0 \/ l.p_offs >= 0

\* const struct gsm48_meas_res *mr = NULL
meas_res_null == [ null |-> TRUE ]

\* mutant: the MEAS-VALID bit is not looked at
gsm48_meas_res_is_valid_any(mr) == TRUE

\* libosmocore: a Measurement Result is valid when its MEAS-VALID bit is 0
gsm48_meas_res_is_valid(mr) == mr.meas_valid = 0

\* mutant: the RxLev is passed on as it is
rxlev2dbm_raw(rxlev) == rxlev

\* libosmocore: the level in dBm of an RxLev
rxlev2dbm(rxlev) == -110 + (IF rxlev > 63 THEN 63 ELSE rxlev)

\* static void repeated_dl_facch_active_decision(lchan, meas_res); meas_res is
\* meas_res_null or the Measurement Results of the report
repeated_dl_facch_active_decision(l, meas_res) ==
  IF ~l.rep_acch_cap.dl_facch_cmd /\ ~l.rep_acch_cap.dl_facch_all
    THEN [l EXCEPT !.rep_acch.dl_facch_active = FALSE]
  ELSE IF l.rep_acch_cap.rxqual = 0
    THEN [l EXCEPT !.rep_acch.dl_facch_active = TRUE]
  ELSE IF l.meas.l1_info.srr_sro # 0
    THEN [l EXCEPT !.rep_acch.dl_facch_active = TRUE]
  ELSE IF meas_res.null THEN l
  ELSE IF ~gsm48_meas_res_is_valid(meas_res) THEN l
  ELSE
    LET upper == l.rep_acch_cap.rxqual
        lower == IF upper > 2 THEN l.rep_acch_cap.rxqual - 2 ELSE 0
        rxqual == IF meas_res.dtx_used = 1 THEN meas_res.rxqual_sub ELSE meas_res.rxqual_full
    IN IF rxqual >= upper THEN [l EXCEPT !.rep_acch.dl_facch_active = TRUE]
       ELSE IF rxqual <= lower THEN [l EXCEPT !.rep_acch.dl_facch_active = FALSE]
       ELSE l

\* mutant: no hysteresis, the decision follows the threshold
acch_overpower_active_decision_no_hyst(l, meas_res) ==
  IF l.top_acch_cap.overpower_db = 0 THEN l
  ELSE IF l.top_acch_cap.rxqual = 0 THEN l
  ELSE
    LET rxqual == IF meas_res.dtx_used = 1 THEN meas_res.rxqual_sub ELSE meas_res.rxqual_full
    IN [l EXCEPT !.top_acch_active = (rxqual >= l.top_acch_cap.rxqual)]

\* static void acch_overpower_active_decision(lchan, meas_res)
acch_overpower_active_decision(l, meas_res) ==
  IF l.top_acch_cap.overpower_db = 0 THEN l
  ELSE IF l.top_acch_cap.rxqual = 0 THEN l
  ELSE
    LET rxqual == IF meas_res.dtx_used = 1 THEN meas_res.rxqual_sub ELSE meas_res.rxqual_full
        upper == l.top_acch_cap.rxqual
        lower == IF upper > 2 THEN upper - 2 ELSE 0
    IN IF rxqual >= upper THEN [l EXCEPT !.top_acch_active = TRUE]
       ELSE IF rxqual <= lower THEN [l EXCEPT !.top_acch_active = FALSE]
       ELSE l

\* static bool data_is_rr_meas_rep(data), on the LAPDm address and control
\* fields, the protocol discriminator and the message type of the block
data_is_rr_meas_rep(msg) ==
  IF msg.lapdm_addr # 1 THEN FALSE
  ELSE IF msg.lapdm_ctrl # 3 THEN FALSE
  ELSE IF msg.proto_discr # "GSM48_PDISC_RR" THEN FALSE
  ELSE msg.msg_type \in { "GSM48_MT_RR_EXT_MEAS_REP", "GSM48_MT_RR_MEAS_REP" }

\* the length of a SACCH block with its L1 header
GSM_MACBLOCK_LEN == 23

\* void lchan_meas_handle_sacch(lchan, msg).  msg is the block: the length of
\* its L2 part, the L1 header, the LAPDm address and control fields, the
\* protocol discriminator, the message type and the Measurement Results.  env
\* is what the functions outside this file do when called: the return value
\* of rsl_tx_meas_res and the values the three control loops leave in
\* ta_ctrl.current, ms_power_ctrl.current and bs_power_ctrl.current.  The
\* result is the channel afterwards and the arguments of the calls made.
lchan_meas_handle_sacch(l, msg, env) ==
  LET full == msg.l2len = GSM_MACBLOCK_LEN
      l1 == IF full
              THEN [l EXCEPT !.meas.l1_info = [ ms_pwr |-> msg.l1h.ms_pwr,
                                                fpc_epc |-> msg.l1h.fpc_epc,
                                                srr_sro |-> msg.l1h.srr_sro,
                                                ta |-> msg.l1h.ta ],
                             !.meas.flags = @ \cup { "LC_UL_M_F_L1_VALID" }]
              ELSE [l EXCEPT !.meas.flags = @ \ { "LC_UL_M_F_L1_VALID" }]
      \* gh # NULL
      gh == full /\ data_is_rr_meas_rep(msg)
      ms_pwr == IF full THEN l1.meas.l1_info.ms_pwr ELSE l.ms_power_ctrl.current
      ms_ta == IF full THEN l1.meas.l1_info.ta ELSE l.ta_ctrl.current
      timing_offset == IF ms_to_valid(l) THEN ms_to2rsl(l, ms_ta) ELSE -1
      l2 == IF env.tx_rc = 0 THEN [l1 EXCEPT !.meas.res_nr = to_uint8(@ + 1)] ELSE l1
      mr == IF gh /\ msg.msg_type = "GSM48_MT_RR_MEAS_REP" THEN msg.mr ELSE meas_res_null
      mr_valid == ~mr.null /\ gsm48_meas_res_is_valid(mr)
      \* bool dtxu_used = true, "safe default assumption"
      dtxu_used == IF mr_valid THEN mr.dtx_used = 1 ELSE TRUE
      ul_rssi == IF dtxu_used THEN rxlev2dbm(l.meas.ul_res.sub.rx_lev)
                 ELSE rxlev2dbm(l.meas.ul_res.full.rx_lev)
      ul_ci_cb == IF dtxu_used THEN l.meas.ul_ci_cb_sub ELSE l.meas.ul_ci_cb_full
      l3 == [l2 EXCEPT !.ta_ctrl.current = env.ta, !.ms_power_ctrl.current = env.ms_pwr]
      l4 == IF mr_valid
              THEN acch_overpower_active_decision(
                     [l3 EXCEPT !.bs_power_ctrl.current = env.bs_pwr], mr)
              ELSE l3
      l5 == repeated_dl_facch_active_decision(l4, mr)
  IN [ lchan |-> [l5 EXCEPT !.tch.dtx.dl_active = FALSE,
                            !.meas.flags = @ \ { "LC_UL_M_F_OSMO_EXT_VALID" },
                            !.ms_t_offs = -1,
                            !.p_offs = -1],
       calls |-> [ rsl_tx_meas_res |-> [ l3 |-> gh, timing_offset |-> timing_offset ],
                   lchan_ms_ta_ctrl |-> [ ms_ta |-> ms_ta, ms_toa256 |-> l.meas.ms_toa256 ],
                   lchan_ms_pwr_ctrl |-> [ ms_pwr |-> ms_pwr, ul_rssi |-> ul_rssi,
                                           ul_ci_cb |-> ul_ci_cb ],
                   lchan_bs_pwr_ctrl |-> mr_valid ] ]

\* a logical channel with the given configuration, after lchan_meas_reset:
\* no timing offset known, the control loops at 0, no ACCH repetition and no
\* ACCH overpower capability
lchan_of(pchan, ts_nr, nr, type, tch_mode, rsl_cmode) ==
  lchan_meas_reset([ pchan |-> pchan, ts_nr |-> ts_nr, nr |-> nr, type |-> type,
                     tch_mode |-> tch_mode, rsl_cmode |-> rsl_cmode,
                     uplink_size |-> MaxUlMeas, meas |-> << >>,
                     ms_t_offs |-> -1, p_offs |-> -1,
                     tch |-> [ dtx |-> [ dl_active |-> FALSE ] ],
                     ms_power_ctrl |-> [ current |-> 0 ],
                     ta_ctrl |-> [ current |-> 0 ],
                     bs_power_ctrl |-> [ current |-> 0 ],
                     rep_acch_cap |-> [ dl_facch_cmd |-> FALSE, dl_facch_all |-> FALSE,
                                        rxqual |-> 0 ],
                     rep_acch |-> [ dl_facch_active |-> FALSE ],
                     top_acch_cap |-> [ overpower_db |-> 0, rxqual |-> 0 ],
                     top_acch_active |-> FALSE ])

\* a channel without a measurement period (a PDCH), never measured
lchan_idle == lchan_of("PDCH", 0, 0, "PDTCH", "SIGN", "SPD_SIGN")

\* no measurement call was made yet
meas_last_none ==
  [ op |-> "none", fn |-> 0, ulm |-> measurement_dummy, rc_new |-> "0", rc |-> 0,
    loc |-> meas_locals_zero, pre |-> lchan_idle.meas ]

\* ------------------------------------------------------------------------
\* A-bis link FSM
\* ------------------------------------------------------------------------
ABIS_LINK_ST_CONNECTING == "CONNECTING"
ABIS_LINK_ST_CONNECTED == "CONNECTED"
ABIS_LINK_ST_FAILED == "FAILED"

ABIS_LINK_EV_SIGN_LINK_DOWN == "ABIS_LINK_EV_SIGN_LINK_DOWN"
ABIS_LINK_EV_VTY_RM_ADDR == "ABIS_LINK_EV_VTY_RM_ADDR"

\* configured BSC OML hosts at start-up, at most
MaxHosts == 3

\* transceivers of the BTS
NumTrx == 2
MaxOmlMsgs == 2

\* mutant: the first entry is taken for the last
llist_first(hosts) == IF hosts = << >> THEN 0 ELSE hosts[1]

\* llist_last: the last entry of the list of BSC OML hosts, 0 (NULL) if empty
llist_last(hosts) == IF hosts = << >> THEN 0 ELSE hosts[Len(hosts)]

\* position of a host in the list
llist_pos(hosts, h) == CHOOSE i \in 1..Len(hosts) : hosts[i] = h

\* entry->next and entry->prev of an entry that has one
llist_next(hosts, h) == hosts[llist_pos(hosts, h) + 1]
llist_prev(hosts, h) == hosts[llist_pos(hosts, h) - 1]

\* llist_del
llist_del(hosts, h) == SelectSeq(hosts, LAMBDA x : x # h)

\* bts_link_estab was not called yet
estab_none == [ called |-> FALSE, queue |-> << >>, sent |-> << >> ]

\* the link with `n` configured hosts before abis_open: no FSM instance, no
\* line, no signalling link
abis_of(n) ==
  [ fi |-> FALSE,                       \* bts->abis_link_fi is allocated
    state |-> ABIS_LINK_ST_CONNECTING,  \* fi->state
    timer |-> FALSE,                    \* fi->timer is pending
    hosts |-> [ i \in 1..n |-> i ],      \* bts->bsc_oml_hosts
    bsc_oml_host |-> 0,                 \* priv->bsc_oml_host, 0 for NULL
    line_ctr |-> 0,                     \* priv->line_ctr
    line_bound |-> FALSE,               \* line_ops are bound to a line
    addr |-> 0,                         \* line_ops.cfg.ipa.addr, as a host
    attempts |-> << >>,                 \* hosts e1inp_line_update was called for
    oml_link |-> FALSE,                 \* bts->oml_link
    rsl_link |-> [ t \in 0..(NumTrx - 1) |-> FALSE ],  \* trx->rsl_link
    closed |-> 0,                       \* calls of bts_model_abis_close
    connecting |-> 0,                   \* runs of abis_link_connecting_onenter
    removed |-> FALSE,                  \* a host was removed since abis_open
    open_rc |-> "none",                 \* what abis_open returned
    assert_failed |-> FALSE,            \* an OSMO_ASSERT failed
    oml_queue |-> << >>,                \* bts->oml_queue
    oml_sent |-> << >>,                 \* messages handed to abis_sendmsg
    oml_submitted |-> 0,                \* calls of abis_oml_sendmsg
    estab |-> estab_none ]              \* what the last bts_link_estab found

abis_none == abis_of(0)

abis_last_none ==
  [ op |-> "none", data |-> 0, rc |-> 0, pre |-> abis_none,
    env |-> [ line |-> TRUE, update |-> TRUE ] ]

\* abis_link_fsm_states[].out_state_mask
abis_link_out_state_mask(state) ==
  IF state = ABIS_LINK_ST_CONNECTING
    THEN { ABIS_LINK_ST_CONNECTING, ABIS_LINK_ST_CONNECTED, ABIS_LINK_ST_FAILED }
  ELSE IF state = ABIS_LINK_ST_CONNECTED
    THEN { ABIS_LINK_ST_CONNECTING, ABIS_LINK_ST_FAILED }
  ELSE { }

\* abis_link_fsm_states[].in_event_mask
abis_link_in_event_mask(state) ==
  IF state = ABIS_LINK_ST_CONNECTED THEN { ABIS_LINK_EV_SIGN_LINK_DOWN } ELSE { }

\* abis_link_fsm.allstate_event_mask
abis_link_allstate_event_mask == { ABIS_LINK_EV_VTY_RM_ADDR }

\* mutant: entering FAILED does not call the model
abis_link_failed_onenter_silent(a, prev_state) == a

\* onenter of FAILED: initiate the BTS process shut down
abis_link_failed_onenter(a, prev_state) == [a EXCEPT !.closed = @ + 1]

RECURSIVE abis_state_chg(_, _, _, _)

\* mutant: an entry into CONNECTING that finds no candidate starts over with
\* the first host of the list
abis_link_connecting_onenter_wraps(a0, prev_state, env) ==
  LET a == [a0 EXCEPT !.connecting = @ + 1]
      h == IF a.bsc_oml_host # 0 THEN a.bsc_oml_host ELSE llist_first(a.hosts)
  IN IF h = 0 \/ ~env.line \/ ~env.update
       THEN abis_state_chg([a EXCEPT !.bsc_oml_host = 0], ABIS_LINK_ST_FAILED, 0, env)
       ELSE abis_state_chg([a EXCEPT !.bsc_oml_host =
                                        IF h = llist_last(a.hosts) THEN 0
                                        ELSE llist_next(a.hosts, h),
                                     !.addr = h,
                                     !.line_ctr = @ + 1,
                                     !.line_bound = TRUE,
                                     !.attempts = Append(@, h)],
                           ABIS_LINK_ST_CONNECTED, 0, env)

\* onenter of CONNECTING: take the next BSC host and open the OML connection;
\* env tells whether a line could be found or created and whether
\* e1inp_line_update succeeded
abis_link_connecting_onenter(a0, prev_state, env) ==
  LET a == [a0 EXCEPT !.connecting = @ + 1] IN
  IF a.bsc_oml_host # 0
    THEN LET bsc_oml_host == a.bsc_oml_host
             a1 == [a EXCEPT !.bsc_oml_host = IF bsc_oml_host = llist_last(a.hosts) THEN 0
                                              ELSE llist_next(a.hosts, bsc_oml_host),
                             !.addr = bsc_oml_host,
                             !.line_ctr = @ + 1]
         IN IF ~env.line
              THEN abis_state_chg(a1, ABIS_LINK_ST_FAILED, 0, env)
            ELSE IF ~env.update
              THEN abis_state_chg([a1 EXCEPT !.line_bound = TRUE,
                                             !.attempts = Append(@, bsc_oml_host)],
                                  ABIS_LINK_ST_FAILED, 0, env)
            ELSE abis_state_chg([a1 EXCEPT !.line_bound = TRUE,
                                           !.attempts = Append(@, bsc_oml_host)],
                                ABIS_LINK_ST_CONNECTED, 0, env)
  ELSE abis_state_chg(a, ABIS_LINK_ST_FAILED, 0, env)

\* osmo_fsm_inst_state_chg_ms on the A-bis link FSM: refused unless the
\* state allows it; the old timer is deleted, a new one started for a
\* timeout above 0, and the new state's onenter runs last
abis_state_chg(a, new_state, timeout_ms, env) ==
  IF new_state \notin abis_link_out_state_mask(a.state) THEN a
  ELSE LET b == [a EXCEPT !.timer = (timeout_ms > 0), !.state = new_state]
       IN IF new_state = ABIS_LINK_ST_CONNECTING
            THEN abis_link_connecting_onenter(b, a.state, env)
          ELSE IF new_state = ABIS_LINK_ST_FAILED
            THEN abis_link_failed_onenter(b, a.state)
          ELSE b

\* mutant: only the OML link counts as a connection that was present
abis_link_connected_oml_only(a, event, data, env) ==
  IF event # ABIS_LINK_EV_SIGN_LINK_DOWN THEN [a EXCEPT !.assert_failed = TRUE]
  ELSE LET a1 == [a EXCEPT !.oml_link = FALSE,
                           !.rsl_link = [ t \in DOMAIN a.rsl_link |-> FALSE ]]
       IN IF a.oml_link
            THEN abis_state_chg(a1, ABIS_LINK_ST_FAILED, 0, env)
          ELSE abis_state_chg(a1, ABIS_LINK_ST_CONNECTING, 0, env)

\* action of CONNECTED
abis_link_connected(a, event, data, env) ==
  IF event # ABIS_LINK_EV_SIGN_LINK_DOWN THEN [a EXCEPT !.assert_failed = TRUE]
  ELSE LET oml_rsl_was_connected ==
             a.oml_link \/ \E t \in DOMAIN a.rsl_link : a.rsl_link[t]
           a1 == [a EXCEPT !.oml_link = FALSE,
                           !.rsl_link = [ t \in DOMAIN a.rsl_link |-> FALSE ]]
       IN IF oml_rsl_was_connected
            THEN abis_state_chg(a1, ABIS_LINK_ST_FAILED, 0, env)
          ELSE abis_state_chg(a1, ABIS_LINK_ST_CONNECTING, 0, env)

\* mutant: the removal of a host leaves the next candidate alone
abis_link_allstate_keeps(a, event, data) == a

\* the allstate action: a BSC host is about to be removed by the VTY
abis_link_allstate(a, event, data) ==
  IF event # ABIS_LINK_EV_VTY_RM_ADDR THEN [a EXCEPT !.assert_failed = TRUE]
  ELSE IF a.bsc_oml_host = data
    THEN [a EXCEPT !.bsc_oml_host =
            IF Len(a.hosts) <= 1 THEN 0
            ELSE IF a.bsc_oml_host = llist_last(a.hosts) THEN llist_prev(a.hosts, a.bsc_oml_host)
            ELSE llist_next(a.hosts, a.bsc_oml_host)]
  ELSE a

\* osmo_fsm_inst_dispatch on the A-bis link FSM: the link after the event
\* and the result
abis_link_dispatch(a, event, data, env) ==
  IF ~a.fi THEN [ abis |-> a, rc |-> -19 ]
  ELSE IF event \in abis_link_allstate_event_mask
    THEN [ abis |-> abis_link_allstate(a, event, data), rc |-> 0 ]
  ELSE IF event \notin abis_link_in_event_mask(a.state)
    THEN [ abis |-> a, rc |-> -1 ]
  ELSE IF a.state = ABIS_LINK_ST_CONNECTED
    THEN [ abis |-> abis_link_connected(a, event, data, env), rc |-> 0 ]
  ELSE [ abis |-> a, rc |-> 0 ]

\* abis_open: allocate the FSM instance and start connecting
abis_open(a, env) ==
  IF a.hosts = << >> THEN [a EXCEPT !.open_rc = "-EINVAL"]
  ELSE abis_state_chg([a EXCEPT !.fi = TRUE,
                                !.state = ABIS_LINK_ST_CONNECTING,
                                !.bsc_oml_host = a.hosts[1],
                                !.open_rc = "0"],
                      ABIS_LINK_ST_CONNECTING, 1, env)

\* abis_sendmsg (libosmo-abis): the message goes out on the signalling link
abis_sendmsg(a, msg) == [a EXCEPT !.oml_sent = Append(@, msg)]

\* abis_oml_sendmsg: queue the message while there is no OML link
abis_oml_sendmsg(a, msg) ==
  IF ~a.oml_link THEN [a EXCEPT !.oml_queue = Append(@, msg)]
  ELSE abis_sendmsg(a, msg)

\* mutant: the queue is drained from its tail
RECURSIVE drain_oml_queue_lifo(_)
drain_oml_queue_lifo(a) ==
  IF a.oml_queue = << >> THEN a
  ELSE drain_oml_queue_lifo(
         abis_sendmsg([a EXCEPT !.oml_queue = SubSeq(@, 1, Len(@) - 1)],
                      a.oml_queue[Len(a.oml_queue)]))

\* drain_oml_queue: every queued message, from the head, is taken off the
\* queue and sent
RECURSIVE drain_oml_queue(_)
drain_oml_queue(a) ==
  IF a.oml_queue = << >> THEN a
  ELSE drain_oml_queue(abis_sendmsg([a EXCEPT !.oml_queue = Tail(@)], Head(a.oml_queue)))

\* bts_link_estab: the OML link is announced; what it finds is kept
bts_link_estab(a) ==
  [a EXCEPT !.estab = [ called |-> TRUE, queue |-> a.oml_queue, sent |-> a.oml_sent ]]

\* sign_link_up: the OML link, or the RSL link of TRX trx_nr, came up
sign_link_up(a, type, trx_nr) ==
  IF type = "E1INP_SIGN_OML"
    THEN bts_link_estab(drain_oml_queue([a EXCEPT !.oml_link = TRUE]))
  ELSE IF trx_nr \notin DOMAIN a.rsl_link THEN a
  ELSE [a EXCEPT !.rsl_link[trx_nr] = TRUE]

\* sign_link_down
sign_link_down(a, env) == abis_link_dispatch(a, ABIS_LINK_EV_SIGN_LINK_DOWN, 0, env)

\* ------------------------------------------------------------------------
\* The state machine
\* ------------------------------------------------------------------------
OpStates == { NM_OPSTATE_DISABLED, NM_OPSTATE_ENABLED }

\* the FSM instances are allocated in state 0 (DISABLED_NOTINSTALLED) with a
\* fresh MO; the carrier and the baseband transceiver start disabled.
\* The two instances share no state and every dispatch runs to completion, so
\* a behaviour drives one of them and leaves the other as allocated.
Init ==
  /\ fi \in { "chan", "sm" }
  /\ ts_state = NM_CHAN_ST_OP_DISABLED_NOTINSTALLED
  /\ ts_mo = mo_init
  /\ ts_lchans = FALSE
  /\ vamos_peer \in { "NULL", "idle" }
  /\ trx = [ bb_transc |-> NM_OPSTATE_DISABLED, mo |-> NM_OPSTATE_DISABLED ]
  /\ rchan_depends \in BOOLEAN
  /\ sm_state = NM_BTS_SM_ST_OP_DISABLED_NOTINSTALLED
  /\ sm_mo = mo_init
  /\ out = << >>
  /\ last = [ fsm |-> "none", ev |-> "none", data |-> NoData, pre |-> "none", rc |-> 0 ]
  /\ aborted = FALSE
  /\ opstart_pending = [ chan |-> FALSE, sm |-> FALSE ]
  /\ lchan = lchan_idle
  /\ meas_last = meas_last_none
  /\ clock = 0
  /\ hits = 0
  /\ abis = abis_none
  /\ abis_last = abis_last_none

\* the model activation routine was called and will answer later
asks_async(o, data) ==
  /\ data.opstart = "async"
  /\ \E i \in 1..Len(o) : o[i] = << "MODEL_OPSTART" >>

\* one top-level osmo_fsm_inst_dispatch on the channel FSM, run to completion
\* on the timeslot `c0`
ChanDispatch(c0, event, data, pend) ==
  LET c == nm_chan_dispatch(c0, event, data)
  IN /\ ~aborted
     /\ fi = "chan"
     /\ ts_state' = c.state
     /\ ts_mo' = c.mo
     /\ ts_lchans' = c.lchans
     /\ vamos_peer' = c.vamos
     /\ trx' = c.trx
     /\ out' = c.out
     /\ aborted' = c.aborted
     /\ last' = [ fsm |-> "chan", ev |-> event, data |-> data, pre |-> ts_state,
                  rc |-> nm_chan_dispatch_rc(ts_state, event) ]
     /\ opstart_pending' = [opstart_pending EXCEPT
                              !.chan = IF asks_async(c.out, data) THEN TRUE ELSE pend]
     /\ UNCHANGED << rchan_depends, sm_state, sm_mo, fi >>
     /\ UNCHANGED << meas_vars, abis_vars >>

\* the timeslot as the dispatch finds it
ChanCtx ==
  [ state |-> ts_state, mo |-> ts_mo, lchans |-> ts_lchans, vamos |-> vamos_peer,
    trx |-> trx, out |-> << >>, aborted |-> FALSE ]

\* events of the management side: OML link up, software activation, disable
\* command, shutdown
ChanMgmtEvent ==
  \E event \in { NM_EV_OML_UP, NM_EV_SW_ACT, NM_EV_DISABLE,
                 NM_EV_SHUTDOWN_START, NM_EV_SHUTDOWN_FINISH } :
    ChanDispatch(ChanCtx, event, NoData, opstart_pending.chan)

\* Set Channel Attributes from the BSC: the attributes are cached in
\* ts->mo.nm_attr, then NM_EV_RX_SETATTR is dispatched; rc_ok is the result of
\* bts_model_apply_oml
ChanRxSetAttr ==
  \E rc_ok \in BOOLEAN :
    ChanDispatch([ChanCtx EXCEPT !.mo.nm_attr = TRUE], NM_EV_RX_SETATTR,
                 [NoData EXCEPT !.rc_ok = rc_ok], opstart_pending.chan)

\* OPSTART from the BSC; the model answers later, or at once with ack or nack
ChanRxOpstart ==
  \E mode \in OpstartModes : \E cause \in NackCauses :
    /\ (mode # "sync_nack" => cause = NM_NACK_CANT_PERFORM)
    /\ ChanDispatch(ChanCtx, NM_EV_RX_OPSTART,
                    [NoData EXCEPT !.opstart = mode,
                                   !.cause = IF mode = "sync_nack" THEN cause ELSE "none"],
                    opstart_pending.chan)

\* the model's late answer to an activation: acknowledgement
ChanOpstartAck ==
  /\ opstart_pending.chan
  /\ ChanDispatch(ChanCtx, NM_EV_OPSTART_ACK, NoData, FALSE)

\* the model's late answer to an activation: negative acknowledgement
ChanOpstartNack ==
  /\ opstart_pending.chan
  /\ \E cause \in NackCauses :
       ChanDispatch(ChanCtx, NM_EV_OPSTART_NACK, [NoData EXCEPT !.cause = cause], FALSE)

\* the baseband transceiver changes its operational state and tells the
\* timeslot
BbTranscOpChg ==
  \E op \in OpStates :
    ChanDispatch([ChanCtx EXCEPT !.trx.bb_transc = op],
                 IF op = NM_OPSTATE_ENABLED THEN NM_EV_BBTRANSC_ENABLED
                                            ELSE NM_EV_BBTRANSC_DISABLED,
                 NoData, opstart_pending.chan)

\* the radio carrier changes its operational state and tells the timeslot
RcarrierOpChg ==
  \E op \in OpStates :
    ChanDispatch([ChanCtx EXCEPT !.trx.mo = op],
                 IF op = NM_OPSTATE_ENABLED THEN NM_EV_RCARRIER_ENABLED
                                            ELSE NM_EV_RCARRIER_DISABLED,
                 NoData, opstart_pending.chan)

\* a logical channel is activated on the enabled timeslot (or on its VAMOS
\* peer): radio resources are now held
RslChanActiv ==
  /\ ~aborted
  /\ fi = "chan"
  /\ ts_state = NM_CHAN_ST_OP_ENABLED
  /\ \/ ts_lchans' = TRUE /\ UNCHANGED vamos_peer
     \/ vamos_peer # "NULL" /\ vamos_peer' = "active" /\ UNCHANGED ts_lchans
  /\ out' = << >>
  /\ last' = [ fsm |-> "none", ev |-> "RSL_CHAN_ACTIV", data |-> NoData,
               pre |-> ts_state, rc |-> 0 ]
  /\ UNCHANGED << ts_state, ts_mo, trx, rchan_depends, sm_state, sm_mo,
                  aborted, opstart_pending, fi >>
  /\ UNCHANGED << meas_vars, abis_vars >>

\* one top-level osmo_fsm_inst_dispatch on the site manager FSM
SmDispatch(event, data, pend) ==
  LET s == nm_bts_sm_dispatch([ state |-> sm_state, mo |-> sm_mo, out |-> << >>,
                                aborted |-> FALSE ], event, data)
  IN /\ ~aborted
     /\ fi = "sm"
     /\ sm_state' = s.state
     /\ sm_mo' = s.mo
     /\ out' = s.out
     /\ aborted' = s.aborted
     /\ last' = [ fsm |-> "sm", ev |-> event, data |-> data, pre |-> sm_state,
                  rc |-> nm_bts_sm_dispatch_rc(sm_state, event) ]
     /\ opstart_pending' = [opstart_pending EXCEPT
                              !.sm = IF asks_async(s.out, data) THEN TRUE ELSE pend]
     /\ UNCHANGED << ts_state, ts_mo, ts_lchans, vamos_peer, trx, rchan_depends, fi >>
     /\ UNCHANGED << meas_vars, abis_vars >>

\* OML link up, Set Attributes from the BSC, shutdown
SmMgmtEvent ==
  \E event \in { NM_EV_OML_UP, NM_EV_RX_SETATTR,
                 NM_EV_SHUTDOWN_START, NM_EV_SHUTDOWN_FINISH } :
    SmDispatch(event, NoData, opstart_pending.sm)

SmRxOpstart ==
  \E mode \in OpstartModes : \E cause \in NackCauses :
    /\ (mode # "sync_nack" => cause = NM_NACK_CANT_PERFORM)
    /\ SmDispatch(NM_EV_RX_OPSTART,
                  [NoData EXCEPT !.opstart = mode,
                                 !.cause = IF mode = "sync_nack" THEN cause ELSE "none"],
                  opstart_pending.sm)

SmOpstartAck ==
  /\ opstart_pending.sm
  /\ SmDispatch(NM_EV_OPSTART_ACK, NoData, FALSE)

SmOpstartNack ==
  /\ opstart_pending.sm
  /\ \E cause \in NackCauses :
       SmDispatch(NM_EV_OPSTART_NACK, [NoData EXCEPT !.cause = cause], FALSE)

Next ==
  \/ ChanMgmtEvent
  \/ ChanRxSetAttr
  \/ ChanRxOpstart
  \/ ChanOpstartAck
  \/ ChanOpstartNack
  \/ BbTranscOpChg
  \/ RcarrierOpChg
  \/ RslChanActiv
  \/ SmMgmtEvent
  \/ SmRxOpstart
  \/ SmOpstartAck
  \/ SmOpstartNack

Spec == Init /\ [][Next]_vars

TypeOK ==
  /\ ts_state \in { NM_CHAN_ST_OP_DISABLED_NOTINSTALLED, NM_CHAN_ST_OP_DISABLED_DEPENDENCY,
                     NM_CHAN_ST_OP_DISABLED_OFFLINE, NM_CHAN_ST_OP_ENABLED }
  /\ sm_state \in { NM_BTS_SM_ST_OP_DISABLED_NOTINSTALLED, NM_BTS_SM_ST_OP_DISABLED_OFFLINE,
                     NM_BTS_SM_ST_OP_ENABLED }
  /\ aborted \in BOOLEAN

\* ------------------------------------------------------------------------
\* Measurement processing as a state machine
\* ------------------------------------------------------------------------
\* the management FSMs as allocated
NmAllocated ==
  /\ ts_state = NM_CHAN_ST_OP_DISABLED_NOTINSTALLED
  /\ ts_mo = mo_init
  /\ ts_lchans = FALSE
  /\ vamos_peer = "NULL"
  /\ trx = [ bb_transc |-> NM_OPSTATE_DISABLED, mo |-> NM_OPSTATE_DISABLED ]
  /\ rchan_depends = FALSE
  /\ sm_state = NM_BTS_SM_ST_OP_DISABLED_NOTINSTALLED
  /\ sm_mo = mo_init
  /\ out = << >>
  /\ last = [ fsm |-> "none", ev |-> "none", data |-> NoData, pre |-> "none", rc |-> 0 ]
  /\ aborted = FALSE
  /\ opstart_pending = [ chan |-> FALSE, sm |-> FALSE ]

\* the management FSMs and the A-bis link left alone
NmIdle ==
  /\ fi = "meas"
  /\ NmAllocated
  /\ abis = abis_none
  /\ abis_last = abis_last_none

\* every channel configuration that has a measurement period
PeriodConfigs ==
  { lchan_of("TCH_F", ts, 0, "TCH_F", "SPEECH_V1", "SPD_SPEECH") : ts \in 0..7 }
  \cup { lchan_of("TCH_H", ts, ss, "TCH_H", "SPEECH_V1", "SPD_SPEECH") : ts \in 0..7, ss \in 0..1 }
  \cup { lchan_of(p, 1, ss, "SDCCH", "SIGN", "SPD_SIGN") :
           p \in { "SDCCH8_SACCH8C", "SDCCH8_SACCH8C_CBCH" }, ss \in 0..7 }
  \cup { lchan_of(p, 0, ss, "SDCCH", "SIGN", "SPD_SIGN") :
           p \in { "CCCH_SDCCH4", "CCCH_SDCCH4_CBCH" }, ss \in 0..3 }

\* frame numbers at which a scanned period starts: multiples of 104 and of 102
PeriodBases == { 0, 10608 }

InitPeriod ==
  /\ NmIdle
  /\ lchan \in PeriodConfigs
  /\ meas_last = meas_last_none
  /\ clock \in PeriodBases
  /\ hits = 0

\* is_meas_complete is asked about the next frame of the period
PeriodFrame ==
  /\ meas_last.op = "none" \/ clock % modulus_by_lchan(lchan) # 0
  /\ LET rc == IF is_meas_complete(lchan, clock) THEN 1 ELSE 0
     IN /\ meas_last' = [meas_last_none EXCEPT !.op = "is_meas_complete",
                                               !.fn = clock, !.rc = rc]
        /\ hits' = hits + rc
  /\ clock' = clock + 1
  /\ UNCHANGED lchan
  /\ UNCHANGED nm_vars

NextPeriod == PeriodFrame

SpecPeriod == InitPeriod /\ [][NextPeriod]_vars

\* completed measurement periods per behaviour
MaxPeriods == 2

\* samples recorded in a period after the first
MaxLateSamples == 0

\* the channels whose samples are aggregated
MeasConfigs ==
  { lchan_of("TCH_F", 2, 0, "TCH_F", "SPEECH_V1", "SPD_SPEECH"),
    lchan_of("TCH_F", 0, 0, "TCH_F", "SPEECH_AMR", "SPD_SPEECH"),
    lchan_of("SDCCH8_SACCH8C", 1, 5, "SDCCH", "SIGN", "SPD_SIGN"),
    lchan_idle }

\* the samples L1 hands over
MeasSamples ==
  { [ ber10k |-> 0, ta_offs_256bits |-> -100, ci_cb |-> 250, is_sub |-> FALSE, inv_rssi |-> 60 ],
    [ ber10k |-> 1300, ta_offs_256bits |-> 255, ci_cb |-> -15, is_sub |-> TRUE, inv_rssi |-> 95 ],
    [ ber10k |-> 35, ta_offs_256bits |-> 7, ci_cb |-> 0, is_sub |-> FALSE, inv_rssi |-> 0 ] }

\* the frame numbers they come with: a frame of the SUB set of a speech
\* channel (52), any other frame (5), and of the period ends 38, 12 and 0 of
\* the channels above the one of the channel itself
MeasFns(l) ==
  { fn \in { 0, 5, 12, 38, 52 } : fn \in { 5, 52 } \/ is_meas_complete(l, fn) }

\* the bounds leave room for this call
MeasRoom(l, fn, records) ==
  /\ is_meas_complete(l, fn) => hits < MaxPeriods
  /\ (records /\ hits > 0) => Len(l.meas.uplink) < MaxLateSamples

InitMeas ==
  /\ NmIdle
  /\ lchan \in MeasConfigs
  /\ meas_last = meas_last_none
  /\ clock = 0
  /\ hits = 0

\* l1sap: a measurement indication arrives
MeasProcess ==
  \E fn \in MeasFns(lchan) : \E ulm \in MeasSamples :
    /\ MeasRoom(lchan, fn, TRUE)
    /\ \E r \in { lchan_meas_process_measurement(lchan, ulm, fn) } :
       /\ lchan' = r.lchan
       /\ meas_last' = [ op |-> "process_measurement", fn |-> fn, ulm |-> ulm,
                         rc_new |-> r.rc_new, rc |-> r.rc, loc |-> r.loc,
                         pre |-> lchan.meas ]
       /\ hits' = hits + r.rc
       /\ aborted' = r.abort
       /\ UNCHANGED clock
       /\ UNCHANGED nm_rest

\* lchan_meas_check_compute is called for a frame without a sample
MeasCheckCompute ==
  \E fn \in MeasFns(lchan) :
    /\ MeasRoom(lchan, fn, FALSE)
    /\ \E r \in { lchan_meas_check_compute(lchan, fn) } :
       /\ lchan' = r.lchan
       /\ meas_last' = [ op |-> "check_compute", fn |-> fn, ulm |-> measurement_dummy,
                         rc_new |-> "0", rc |-> r.rc, loc |-> r.loc, pre |-> lchan.meas ]
       /\ hits' = hits + r.rc
       /\ aborted' = r.abort
       /\ UNCHANGED clock
       /\ UNCHANGED nm_rest

\* the channel is activated again
MeasReset ==
  /\ hits = 0
  /\ lchan' = lchan_meas_reset(lchan)
  /\ meas_last' = [meas_last_none EXCEPT !.op = "reset", !.pre = lchan.meas]
  /\ UNCHANGED << clock, hits >>
  /\ UNCHANGED nm_vars

NextMeas ==
  \/ MeasProcess
  \/ MeasCheckCompute
  \/ MeasReset

SpecMeas == InitMeas /\ [][NextMeas]_vars

\* ------------------------------------------------------------------------
\* One measurement period of a TCH/F speech channel, frame by frame
\* ------------------------------------------------------------------------
\* the frame at which the measurement period of channel l ends
PeriodEndFn(l) == CHOOSE fn \in 0..103 : is_meas_complete(l, fn)

\* what L1 reports for a traffic block and for a SACCH block
E2ETrafficSample ==
  [ ber10k |-> 200, ta_offs_256bits |-> 10, ci_cb |-> 100, is_sub |-> FALSE, inv_rssi |-> 80 ]
E2ESacchSample ==
  [ ber10k |-> 0, ta_offs_256bits |-> 12, ci_cb |-> 120, is_sub |-> TRUE, inv_rssi |-> 60 ]

\* a TCH/F block starts at frames 0, 4, 8, 13, 17 and 21 of the 26-multiframe
TchfBlockStart(fn) == (fn % 26) \in { 0, 4, 8, 13, 17, 21 }

\* a freshly activated TCH/F speech channel, right after the end of a period
InitE2E ==
  /\ NmIdle
  /\ \E ts \in 0..7 : \E mode \in { "SPEECH_V1", "SPEECH_EFR", "SPEECH_AMR" } :
       /\ lchan = [lchan_of("TCH_F", ts, 0, "TCH_F", mode, "SPD_SPEECH")
                     EXCEPT !.uplink_size = MAX_NUM_UL_MEAS]
       /\ clock = PeriodEndFn(lchan) + 1
  /\ meas_last = meas_last_none
  /\ hits = 0

\* the measurement indication of the block that starts at frame `clock`
E2EIndication(ulm) ==
  \E r \in { lchan_meas_process_measurement(lchan, ulm, clock) } :
    /\ hits = 0
    /\ lchan' = r.lchan
    /\ meas_last' = [ op |-> "process_measurement", fn |-> clock, ulm |-> ulm,
                      rc_new |-> r.rc_new, rc |-> r.rc, loc |-> r.loc,
                      pre |-> lchan.meas ]
    /\ hits' = hits + r.rc
    /\ aborted' = r.abort
    /\ clock' = clock + 1
    /\ UNCHANGED nm_rest

E2ETraffic ==
  /\ TchfBlockStart(clock)
  /\ E2EIndication(E2ETrafficSample)

E2ESacch ==
  /\ is_meas_complete(lchan, clock)
  /\ E2EIndication(E2ESacchSample)

\* no block of the channel starts at this frame
E2ENoBlock ==
  /\ hits = 0
  /\ ~TchfBlockStart(clock) /\ ~is_meas_complete(lchan, clock)
  /\ clock' = clock + 1
  /\ UNCHANGED << lchan, meas_last, hits >>
  /\ UNCHANGED nm_vars

NextE2E ==
  \/ E2ETraffic
  \/ E2ESacch
  \/ E2ENoBlock

SpecE2E == InitE2E /\ [][NextE2E]_vars

\* ------------------------------------------------------------------------
\* The extended statistics over the whole range of timing offsets
\* ------------------------------------------------------------------------
\* timing offsets (int16_t ta_offs_256bits) and stored means (int16_t
\* ms_toa256) at the ends and in the middle of their range
ToaSampleValues == { INT16_MIN, 0, INT16_MAX }
ToaMeanValues == { INT16_MIN, -1, 0, 1, INT16_MAX }

ToaSample(t) ==
  [ ber10k |-> 0, ta_offs_256bits |-> t, ci_cb |-> 0, is_sub |-> FALSE, inv_rssi |-> 70 ]

\* the buffers: every sequence of up to MaxUlMeas samples, and a buffer
\* filled to its capacity with one sample
ToaBuffers ==
  UNION { [ 1..n -> { ToaSample(t) : t \in ToaSampleValues } ] : n \in 0..MaxUlMeas }
ToaFullBuffers ==
  { [ i \in 1..MAX_NUM_UL_MEAS |-> ToaSample(t) ] : t \in ToaSampleValues }

\* an SDCCH with a small buffer, and a channel without a measurement period
\* whose buffer of MAX_NUM_UL_MEAS samples is full
InitToa ==
  /\ NmIdle
  /\ \E mean \in ToaMeanValues :
       \/ \E q \in ToaBuffers :
            lchan = [lchan_of("SDCCH8_SACCH8C", 1, 5, "SDCCH", "SIGN", "SPD_SIGN")
                       EXCEPT !.meas.ms_toa256 = mean, !.meas.uplink = q]
       \/ \E q \in ToaFullBuffers :
            lchan = [lchan_idle EXCEPT !.uplink_size = MAX_NUM_UL_MEAS,
                                       !.meas.ms_toa256 = mean, !.meas.uplink = q]
  /\ meas_last = meas_last_none
  /\ clock = 0
  /\ hits = 0

\* lchan_meas_compute_extended on the buffer and the stored mean
ToaComputeExtended ==
  /\ meas_last.op = "none"
  /\ \E r \in { lchan_meas_compute_extended(lchan) } :
       /\ lchan' = r.lchan
       /\ aborted' = r.abort
       /\ meas_last' = [meas_last_none EXCEPT !.op = "compute_extended", !.pre = lchan.meas,
                                              !.loc.div0 = r.div0]
  /\ UNCHANGED << clock, hits >>
  /\ UNCHANGED nm_rest

\* lchan_meas_check_compute at the end of the period: the mean is computed
\* from the buffer first
ToaCheckCompute ==
  /\ meas_last.op = "none"
  /\ \E fn \in { f \in 0..103 : is_meas_complete(lchan, f) } :
      \E r \in { lchan_meas_check_compute(lchan, fn) } :
       /\ lchan' = r.lchan
       /\ aborted' = r.abort
       /\ meas_last' = [ op |-> "check_compute", fn |-> fn, ulm |-> measurement_dummy,
                         rc_new |-> "0", rc |-> r.rc, loc |-> r.loc, pre |-> lchan.meas ]
       /\ hits' = hits + r.rc
  /\ UNCHANGED clock
  /\ UNCHANGED nm_rest

NextToa ==
  \/ ToaComputeExtended
  \/ ToaCheckCompute

SpecToa == InitToa /\ [][NextToa]_vars

\* ------------------------------------------------------------------------
\* The divisors of the computation, over every kind of channel and buffer
\* ------------------------------------------------------------------------
\* one channel of every kind lchan_meas_num_expected tells apart, and a
\* channel without a measurement period
DivConfigs ==
  { lchan_of("TCH_F", 2, 0, "TCH_F", "SPEECH_V1", "SPD_SPEECH"),
    lchan_of("TCH_F", 0, 0, "TCH_F", "SPEECH_AMR", "SPD_SPEECH"),
    lchan_of("TCH_H", 2, 1, "TCH_H", "SIGN", "SPD_SIGN"),
    lchan_of("TCH_H", 2, 0, "TCH_H", "SPEECH_V1", "SPD_SPEECH"),
    lchan_of("SDCCH8_SACCH8C", 1, 5, "SDCCH", "SIGN", "SPD_SIGN"),
    lchan_of("CCCH_SDCCH4", 0, 2, "SDCCH", "SIGN", "SPD_SIGN"),
    lchan_idle }

\* samples whose values are all zero, without and with the SUB mark, and a
\* SUB sample with values
DivSamples ==
  { [ ber10k |-> 0, ta_offs_256bits |-> 0, ci_cb |-> 0, is_sub |-> FALSE, inv_rssi |-> 0 ],
    [ ber10k |-> 0, ta_offs_256bits |-> 0, ci_cb |-> 0, is_sub |-> TRUE, inv_rssi |-> 0 ],
    [ ber10k |-> 1300, ta_offs_256bits |-> 255, ci_cb |-> -15, is_sub |-> TRUE, inv_rssi |-> 95 ] }

\* every buffer of up to MaxUlMeas such samples, the empty one included
DivBuffers == UNION { [ 1..n -> DivSamples ] : n \in 0..MaxUlMeas }

InitDiv ==
  /\ NmIdle
  /\ \E cfg \in DivConfigs : \E q \in DivBuffers :
       lchan = [cfg EXCEPT !.meas.uplink = q]
  /\ meas_last = meas_last_none
  /\ clock = 0
  /\ hits = 0

SpecDiv == InitDiv /\ [][NextToa]_vars

\* ------------------------------------------------------------------------
\* SACCH blocks between the measurement periods
\* ------------------------------------------------------------------------
\* the Measurement Results of a report; meas_valid = 1 marks them invalid
meas_res_of(meas_valid, dtx_used, rxqual_full, rxqual_sub) ==
  [ null |-> FALSE, meas_valid |-> meas_valid, dtx_used |-> dtx_used,
    rxqual_full |-> rxqual_full, rxqual_sub |-> rxqual_sub ]

\* a SACCH block of GSM_MACBLOCK_LEN octets with the L1 header of an MS at
\* power level 7 and timing advance 3
sacch_block(srr_sro, lapdm_addr, proto_discr, msg_type, mr) ==
  [ l2len |-> GSM_MACBLOCK_LEN,
    l1h |-> [ ms_pwr |-> 7, fpc_epc |-> 0, srr_sro |-> srr_sro, ta |-> 3 ],
    lapdm_addr |-> lapdm_addr, lapdm_ctrl |-> 3,
    proto_discr |-> proto_discr, msg_type |-> msg_type, mr |-> mr ]

\* a block that is not a measurement report: an SMS block on SAPI 3
sacch_sapi3_block(srr_sro) ==
  sacch_block(srr_sro, 13, "GSM48_PDISC_SMS", "CP_DATA", meas_res_of(0, 0, 0, 0))

\* a bad frame: no L2 data, the L1 header is not there
sacch_bad_frame ==
  [sacch_block(0, 0, "NONE", "NONE", meas_res_of(0, 0, 0, 0)) EXCEPT !.l2len = 0]

\* a Measurement Report and an Extended Measurement Report
sacch_meas_rep(srr_sro, mr) ==
  sacch_block(srr_sro, 1, "GSM48_PDISC_RR", "GSM48_MT_RR_MEAS_REP", mr)
sacch_ext_meas_rep(srr_sro, mr) ==
  sacch_block(srr_sro, 1, "GSM48_PDISC_RR", "GSM48_MT_RR_EXT_MEAS_REP", mr)

\* SACCH blocks handled on one channel per behaviour
MaxResNr == 2

\* the blocks of the uplink SACCH
SacchBlocks ==
  { sacch_meas_rep(0, meas_res_of(0, 0, 1, 5)),
    sacch_meas_rep(0, meas_res_of(0, 1, 1, 5)),
    sacch_meas_rep(0, meas_res_of(1, 0, 1, 5)),
    sacch_ext_meas_rep(0, meas_res_of(0, 0, 1, 5)),
    sacch_sapi3_block(0),
    sacch_bad_frame }

\* what the functions called by lchan_meas_handle_sacch do: the report is
\* sent and the loops leave their values alone, or it is not sent and each
\* loop makes an adjustment
SacchEnv ==
  { [ tx_rc |-> 0, ta |-> 0, ms_pwr |-> 0, bs_pwr |-> 0 ],
    [ tx_rc |-> -1, ta |-> 1, ms_pwr |-> 2, bs_pwr |-> 4 ] }

\* a TCH/F speech channel; L1 has or has not reported a timing offset
SacchConfigs ==
  { [lchan_of("TCH_F", 2, 0, "TCH_F", "SPEECH_V1", "SPD_SPEECH")
       EXCEPT !.ms_t_offs = o[1], !.p_offs = o[2]] :
      o \in { << -1, -1 >>, << 3, -1 >>, << -1, 5 >> } }

\* the samples L1 hands over for it
SacchSamples ==
  { [ ber10k |-> 0, ta_offs_256bits |-> -100, ci_cb |-> 250, is_sub |-> FALSE, inv_rssi |-> 60 ],
    [ ber10k |-> 1300, ta_offs_256bits |-> 255, ci_cb |-> -15, is_sub |-> TRUE, inv_rssi |-> 95 ] }

\* frame 5 of the period and the frame that ends it
SacchFns(l) == { 5, PeriodEndFn(l) }

InitSacch ==
  /\ NmIdle
  /\ lchan \in SacchConfigs
  /\ meas_last = meas_last_none
  /\ clock = 0
  /\ hits = 0

\* l1sap: a measurement indication arrives
SacchProcess ==
  \E fn \in SacchFns(lchan) : \E ulm \in SacchSamples :
    /\ MeasRoom(lchan, fn, TRUE)
    /\ \E r \in { lchan_meas_process_measurement(lchan, ulm, fn) } :
       /\ lchan' = r.lchan
       /\ meas_last' = [ op |-> "process_measurement", fn |-> fn, ulm |-> ulm,
                         rc_new |-> r.rc_new, rc |-> r.rc, loc |-> r.loc,
                         pre |-> lchan.meas ]
       /\ hits' = hits + r.rc
       /\ aborted' = r.abort
       /\ UNCHANGED clock
       /\ UNCHANGED nm_rest

\* the period ends without a sample at its last frame
SacchCheckCompute ==
  \E fn \in SacchFns(lchan) :
    /\ MeasRoom(lchan, fn, FALSE)
    /\ \E r \in { lchan_meas_check_compute(lchan, fn) } :
       /\ lchan' = r.lchan
       /\ meas_last' = [ op |-> "check_compute", fn |-> fn, ulm |-> measurement_dummy,
                         rc_new |-> "0", rc |-> r.rc, loc |-> r.loc, pre |-> lchan.meas ]
       /\ hits' = hits + r.rc
       /\ aborted' = r.abort
       /\ UNCHANGED clock
       /\ UNCHANGED nm_rest

\* l1sap: a SACCH block is received from the lower layers
SacchHandle ==
  /\ lchan.meas.res_nr < MaxResNr
  /\ \E msg \in SacchBlocks : \E env \in SacchEnv :
      \E r \in { lchan_meas_handle_sacch(lchan, msg, env) } :
       /\ lchan' = r.lchan
       /\ meas_last' = [ op |-> "handle_sacch", fn |-> 0, ulm |-> measurement_dummy,
                         rc_new |-> "0", rc |-> 0, loc |-> meas_locals_zero,
                         pre |-> lchan.meas, msg |-> msg, env |-> env,
                         calls |-> r.calls, pre_lchan |-> lchan ]
  /\ UNCHANGED << clock, hits >>
  /\ UNCHANGED nm_vars

NextSacch ==
  \/ SacchProcess
  \/ SacchCheckCompute
  \/ SacchHandle

SpecSacch == InitSacch /\ [][NextSacch]_vars

\* ------------------------------------------------------------------------
\* The downlink decisions taken at each SACCH block
\* ------------------------------------------------------------------------
\* the RXQUAL values an MS reports: below, between and above the thresholds
AcchRxQuals == { 0, 3, 4 }

\* the blocks of the uplink SACCH, with and without the SRR bit
AcchBlocks ==
  { sacch_meas_rep(srr, meas_res_of(0, dtx, full, sub)) :
      srr \in { 0, 1 }, dtx \in { 0, 1 },
      full \in AcchRxQuals, sub \in AcchRxQuals }
  \cup { sacch_meas_rep(srr, meas_res_of(1, 0, q, q)) :
           srr \in { 0, 1 }, q \in AcchRxQuals }
  \cup { sacch_ext_meas_rep(srr, meas_res_of(0, 0, 4, 4)) : srr \in { 0, 1 } }
  \cup { sacch_sapi3_block(srr) : srr \in { 0, 1 } }
  \cup { sacch_bad_frame }

\* no results to send yet; the BS power control loop, when called, sets the
\* power reduction to 4 or to 8 dB
AcchEnv == { [ tx_rc |-> -1, ta |-> 0, ms_pwr |-> 0, bs_pwr |-> p ] : p \in { 4, 8 } }

\* the repeated ACCH capabilities (none, FACCH commands, all FACCH, with a
\* threshold) and the temporary overpower (off, on without or with a
\* threshold) a channel is activated with
AcchConfigs ==
  { [lchan_of("TCH_F", 2, 0, "TCH_F", "SPEECH_V1", "SPD_SPEECH")
       EXCEPT !.rep_acch_cap = rep, !.top_acch_cap = top] :
      rep \in { [ dl_facch_cmd |-> FALSE, dl_facch_all |-> FALSE, rxqual |-> 4 ],
                [ dl_facch_cmd |-> TRUE, dl_facch_all |-> FALSE, rxqual |-> 0 ],
                [ dl_facch_cmd |-> TRUE, dl_facch_all |-> FALSE, rxqual |-> 1 ],
                [ dl_facch_cmd |-> TRUE, dl_facch_all |-> FALSE, rxqual |-> 4 ],
                [ dl_facch_cmd |-> FALSE, dl_facch_all |-> TRUE, rxqual |-> 4 ] },
      top \in { [ overpower_db |-> 0, rxqual |-> 4 ],
                [ overpower_db |-> 2, rxqual |-> 0 ],
                [ overpower_db |-> 2, rxqual |-> 4 ] } }

InitAcch ==
  /\ NmIdle
  /\ lchan \in AcchConfigs
  /\ meas_last = meas_last_none
  /\ clock = 0
  /\ hits = 0

\* l1sap: a SACCH block is received from the lower layers
AcchHandle ==
  /\ \E msg \in AcchBlocks : \E env \in AcchEnv :
      \E r \in { lchan_meas_handle_sacch(lchan, msg, env) } :
       /\ lchan' = r.lchan
       /\ meas_last' = [ op |-> "handle_sacch", fn |-> 0, ulm |-> measurement_dummy,
                         rc_new |-> "0", rc |-> 0, loc |-> meas_locals_zero,
                         pre |-> lchan.meas, msg |-> msg, env |-> env,
                         calls |-> r.calls, pre_lchan |-> lchan ]
  /\ UNCHANGED << clock, hits >>
  /\ UNCHANGED nm_vars

NextAcch == AcchHandle

SpecAcch == InitAcch /\ [][NextAcch]_vars

\* ------------------------------------------------------------------------
\* The A-bis link
\* ------------------------------------------------------------------------
\* what the line layer answers to a connection attempt
AbisEnv == { e \in [ line : BOOLEAN, update : BOOLEAN ] : ~e.line => e.update }

\* the line layer is called only when CONNECTING is entered
AbisEnvIn(state) == IF state = ABIS_LINK_ST_CONNECTED THEN AbisEnv ELSE { abis_last_none.env }

\* the BTS is configured with up to MaxHosts BSC hosts; abis_init has run
InitAbis ==
  /\ fi = "abis"
  /\ NmAllocated
  /\ lchan = lchan_idle
  /\ meas_last = meas_last_none
  /\ clock = 0
  /\ hits = 0
  /\ abis \in { abis_of(n) : n \in 0..MaxHosts }
  /\ abis_last = abis_last_none

\* main: abis_open is called once
AbisOpen ==
  /\ abis.open_rc = "none"
  /\ \E env \in AbisEnv :
       /\ abis' = abis_open(abis, env)
       /\ abis_last' = [ op |-> "abis_open", data |-> 0, rc |-> 0, pre |-> abis, env |-> env ]
  /\ UNCHANGED << nm_fsm_vars, meas_vars >>

\* libosmo-abis: a signalling link of the bound line came up
AbisSignLinkUp ==
  /\ abis.line_bound
  /\ \E type \in { "E1INP_SIGN_OML", "E1INP_SIGN_RSL" } : \E trx_nr \in 0..NumTrx :
       /\ type = "E1INP_SIGN_OML" => trx_nr = 0
       /\ abis' = sign_link_up(abis, type, trx_nr)
       /\ abis_last' = [ op |-> type, data |-> trx_nr, rc |-> 0, pre |-> abis,
                         env |-> abis_last_none.env ]
  /\ UNCHANGED << nm_fsm_vars, meas_vars >>

\* libosmo-abis: the signalling links of the bound line went down
AbisSignLinkDown ==
  /\ abis.line_bound
  /\ \E env \in AbisEnvIn(abis.state) : \E r \in { sign_link_down(abis, env) } :
       /\ abis' = r.abis
       /\ abis_last' = [ op |-> ABIS_LINK_EV_SIGN_LINK_DOWN, data |-> 0, rc |-> r.rc,
                         pre |-> abis, env |-> env ]
  /\ UNCHANGED << nm_fsm_vars, meas_vars >>

\* VTY: a configured BSC host is removed; the FSM is told before the host
\* leaves the list
AbisVtyRmAddr ==
  /\ abis.fi
  /\ \E i \in 1..Len(abis.hosts) :
      \E r \in { abis_link_dispatch(abis, ABIS_LINK_EV_VTY_RM_ADDR, abis.hosts[i],
                                     abis_last_none.env) } :
       /\ abis' = [r.abis EXCEPT !.hosts = llist_del(@, abis.hosts[i]), !.removed = TRUE]
       /\ abis_last' = [ op |-> ABIS_LINK_EV_VTY_RM_ADDR, data |-> abis.hosts[i],
                         rc |-> r.rc, pre |-> abis, env |-> abis_last_none.env ]
  /\ UNCHANGED << nm_fsm_vars, meas_vars >>

\* OML code submits a message; the k-th message submitted is numbered k
AbisOmlSendmsg ==
  /\ abis.oml_submitted < MaxOmlMsgs
  /\ abis' = abis_oml_sendmsg([abis EXCEPT !.oml_submitted = @ + 1], abis.oml_submitted + 1)
  /\ abis_last' = [ op |-> "abis_oml_sendmsg", data |-> abis.oml_submitted + 1, rc |-> 0,
                    pre |-> abis, env |-> abis_last_none.env ]
  /\ UNCHANGED << nm_fsm_vars, meas_vars >>

NextAbis ==
  \/ AbisOpen
  \/ AbisSignLinkUp
  \/ AbisSignLinkDown
  \/ AbisVtyRmAddr

SpecAbis == InitAbis /\ [][NextAbis]_vars

\* the OML queue: the BTS is configured with MaxHosts BSC hosts, OML
\* messages are submitted at any time, the OML link comes up and the
\* signalling links go down
InitOml ==
  /\ fi = "abis"
  /\ NmAllocated
  /\ lchan = lchan_idle
  /\ meas_last = meas_last_none
  /\ clock = 0
  /\ hits = 0
  /\ abis = abis_of(MaxHosts)
  /\ abis_last = abis_last_none

\* libosmo-abis: the OML signalling link of the bound line came up
AbisOmlLinkUp ==
  /\ abis.line_bound
  /\ abis' = sign_link_up(abis, "E1INP_SIGN_OML", 0)
  /\ abis_last' = [ op |-> "E1INP_SIGN_OML", data |-> 0, rc |-> 0, pre |-> abis,
                    env |-> abis_last_none.env ]
  /\ UNCHANGED << nm_fsm_vars, meas_vars >>

NextOml ==
  \/ AbisOmlSendmsg
  \/ AbisOpen
  \/ AbisOmlLinkUp
  \/ AbisSignLinkDown

SpecOml == InitOml /\ [][NextOml]_vars

\* ------------------------------------------------------------------------
\* Properties
\* ------------------------------------------------------------------------
\* the (operational, availability) pair that belongs to an FSM state
NmStatePair(state) ==
  CASE state = "DISABLED_NOTINSTALLED" -> << NM_OPSTATE_DISABLED, NM_AVSTATE_NOT_INSTALLED >>
    [] state = "DISABLED_DEPENDENCY" -> << NM_OPSTATE_DISABLED, NM_AVSTATE_DEPENDENCY >>
    [] state = "DISABLED_OFFLINE" -> << NM_OPSTATE_DISABLED, NM_AVSTATE_OFF_LINE >>
    [] state = "ENABLED" -> << NM_OPSTATE_ENABLED, NM_AVSTATE_OK >>

\* the state-change notification carrying an MO's current triple
StateChgOf(mo) ==
  << "STATE_CHG", mo.nm_state.operational, mo.nm_state.availability,
     mo.nm_state.administrative >>

\* the last state-change notification of the dispatch, if it sent one, is msg
LastStateChgIs(o, msg) ==
  \A i \in 1..Len(o) :
    (o[i][1] = "STATE_CHG" /\ \A j \in (i+1)..Len(o) : o[j][1] # "STATE_CHG") => o[i] = msg

PairOk(state, mo) ==
  /\ << mo.nm_state.operational, mo.nm_state.availability >> = NmStatePair(state)
  /\ (mo.nm_state.operational = NM_OPSTATE_ENABLED => mo.nm_state.availability = NM_AVSTATE_OK)
  /\ (mo.nm_state.availability = NM_AVSTATE_DEPENDENCY =>
        mo.nm_state.operational = NM_OPSTATE_DISABLED)

\* C1: in every reachable state of the Channel FSM and of the Site Manager
\* FSM the MO's published (operational, availability) pair is the pair of the
\* FSM state last entered, so ENABLED implies OK and DEPENDENCY implies
\* DISABLED; the last notification a dispatch sent carries the stored triple.
C1_PublishedPairOfState ==
  /\ PairOk(ts_state, ts_mo)
  /\ PairOk(sm_state, sm_mo)
  /\ (last.fsm = "chan" => LastStateChgIs(out, StateChgOf(ts_mo)))
  /\ (last.fsm = "sm" => LastStateChgIs(out, StateChgOf(sm_mo)))

\* a transition out of ENABLED into DEPENDENCY has been published
C1_Witness ==
  /\ last.fsm = "chan" /\ last.pre = NM_CHAN_ST_OP_ENABLED
  /\ ts_state = NM_CHAN_ST_OP_DISABLED_DEPENDENCY
  /\ out = << StateChgOf(ts_mo) >>

\* the last dispatch was `event` on the channel FSM, found in state `pre`
ChanDid(event, pre) == last.fsm = "chan" /\ last.ev = event /\ last.pre = pre

\* C2 as stated: SW_ACT in NOTINSTALLED goes to OFFLINE when the carrier is
\* ENABLED (and the baseband transceiver too, if the dependency flag is set)
\* and to DEPENDENCY when the carrier is DISABLED.
C2_AsStated ==
  ChanDid(NM_EV_SW_ACT, NM_CHAN_ST_OP_DISABLED_NOTINSTALLED) =>
    /\ ( (trx.mo = NM_OPSTATE_ENABLED /\ (rchan_depends => trx.bb_transc = NM_OPSTATE_ENABLED))
           => ts_state = NM_CHAN_ST_OP_DISABLED_OFFLINE )
    /\ ( trx.mo = NM_OPSTATE_DISABLED => ts_state = NM_CHAN_ST_OP_DISABLED_DEPENDENCY )

\* C2 (amended): SW_ACT in NOTINSTALLED sends the software-activated report
\* and goes to OFFLINE when the baseband transceiver is ENABLED (and the radio
\* carrier too, if the dependency flag is set), else to DEPENDENCY.
C2_SwActTarget ==
  ChanDid(NM_EV_SW_ACT, NM_CHAN_ST_OP_DISABLED_NOTINSTALLED) =>
    /\ out[1] = << "SW_ACT_REP" >>
    /\ ts_state = IF /\ trx.bb_transc = NM_OPSTATE_ENABLED
                     /\ (rchan_depends => trx.mo = NM_OPSTATE_ENABLED)
                    THEN NM_CHAN_ST_OP_DISABLED_OFFLINE
                    ELSE NM_CHAN_ST_OP_DISABLED_DEPENDENCY

\* SW_ACT took the channel straight to OFFLINE while the carrier is DISABLED
C2_Witness ==
  /\ ChanDid(NM_EV_SW_ACT, NM_CHAN_ST_OP_DISABLED_NOTINSTALLED)
  /\ ts_state = NM_CHAN_ST_OP_DISABLED_OFFLINE
  /\ trx.mo = NM_OPSTATE_DISABLED

\* C3: SHUTDOWN_FINISH in any state of the Channel FSM ends in NOTINSTALLED
\* with the radio resources released, the cached attributes discarded, both
\* flags false and {DISABLED, NOT_INSTALLED, LOCKED} published.
C3_ShutdownFinish ==
  (last.fsm = "chan" /\ last.ev = NM_EV_SHUTDOWN_FINISH) =>
    /\ last.rc = 0
    /\ ts_state = NM_CHAN_ST_OP_DISABLED_NOTINSTALLED
    /\ ~ts_lchans
    /\ vamos_peer # "active"
    /\ ~ts_mo.nm_attr
    /\ ~ts_mo.setattr_success
    /\ ~ts_mo.opstart_success
    /\ ts_mo.nm_state = [ operational |-> NM_OPSTATE_DISABLED,
                          availability |-> NM_AVSTATE_NOT_INSTALLED,
                          administrative |-> NM_STATE_LOCKED ]
    /\ out = << << "STATE_CHG", NM_OPSTATE_DISABLED, NM_AVSTATE_NOT_INSTALLED,
                   NM_STATE_LOCKED >> >>

\* SHUTDOWN_FINISH arrived in DISABLED_NOTINSTALLED itself
C3_Witness ==
  /\ ChanDid(NM_EV_SHUTDOWN_FINISH, NM_CHAN_ST_OP_DISABLED_NOTINSTALLED)
  /\ ts_state = NM_CHAN_ST_OP_DISABLED_NOTINSTALLED

\* C4: SHUTDOWN_START is accepted in every state of both FSMs and changes
\* only the published administrative state, to SHUTDOWN: FSM state,
\* operational and availability state and both flags stay as they were.
C4_ShutdownStartFrame ==
  [][ last'.ev = NM_EV_SHUTDOWN_START =>
        /\ last'.rc = 0
        /\ ts_state' = ts_state /\ sm_state' = sm_state
        /\ ts_lchans' = ts_lchans /\ vamos_peer' = vamos_peer
        /\ (last'.fsm = "chan" =>
              /\ ts_mo' = [ts_mo EXCEPT !.nm_state.administrative = NM_STATE_SHUTDOWN]
              /\ sm_mo' = sm_mo
              /\ out' = << StateChgOf(ts_mo') >>)
        /\ (last'.fsm = "sm" =>
              /\ sm_mo' = [sm_mo EXCEPT !.nm_state.administrative = NM_STATE_SHUTDOWN]
              /\ ts_mo' = ts_mo
              /\ out'[1] = StateChgOf(sm_mo'))
    ]_vars

\* SHUTDOWN_START arrived in ENABLED: still ENABLED/OK, now SHUTDOWN
C4_Witness ==
  /\ ChanDid(NM_EV_SHUTDOWN_START, NM_CHAN_ST_OP_ENABLED)
  /\ ts_state = NM_CHAN_ST_OP_ENABLED
  /\ ts_mo.opstart_success
  /\ ts_mo.nm_state = [ operational |-> NM_OPSTATE_ENABLED,
                        availability |-> NM_AVSTATE_OK,
                        administrative |-> NM_STATE_SHUTDOWN ]

\* the dispatch called the model activation routine
ModelOpstartCalled(o) == \E i \in 1..Len(o) : o[i] = << "MODEL_OPSTART" >>

\* C5: an activation request in OFFLINE or DEPENDENCY while setattr_success is
\* false is answered with a nack "cannot perform", the model activation
\* routine is not called and state and flags stay; while setattr_success is
\* true the request is delegated to the model activation routine.
C5_OpstartGate ==
  [][ ( /\ last'.fsm = "chan" /\ last'.ev = NM_EV_RX_OPSTART
        /\ ts_state \in { NM_CHAN_ST_OP_DISABLED_OFFLINE, NM_CHAN_ST_OP_DISABLED_DEPENDENCY } )
      => IF ~ts_mo.setattr_success
           THEN /\ out' = << << "OPSTART_NACK", NM_NACK_CANT_PERFORM >> >>
                /\ ~ModelOpstartCalled(out')
                /\ ts_state' = ts_state
                /\ ts_mo' = ts_mo
           ELSE out'[1] = << "MODEL_OPSTART" >>
    ]_vars

\* an activation request in DEPENDENCY was refused for want of attributes
C5_Witness ==
  /\ ChanDid(NM_EV_RX_OPSTART, NM_CHAN_ST_OP_DISABLED_DEPENDENCY)
  /\ ~ts_mo.setattr_success
  /\ out = << << "OPSTART_NACK", NM_NACK_CANT_PERFORM >> >>

\* the flags and the published state of an MO
Published(mo) == << mo.setattr_success, mo.opstart_success, mo.nm_state >>

\* C6: in DEPENDENCY a carrier-enabled or baseband-enabled event goes to
\* OFFLINE exactly when ts_can_be_enabled holds at that moment and otherwise
\* stays in DEPENDENCY; a carrier-disabled or baseband-disabled event changes
\* neither the state nor a flag nor the published state.
C6_DependencyEvents ==
  [][ (last'.fsm = "chan" /\ ts_state = NM_CHAN_ST_OP_DISABLED_DEPENDENCY) =>
        /\ (last'.ev \in { NM_EV_BBTRANSC_ENABLED, NM_EV_RCARRIER_ENABLED } =>
              /\ ts_state' = IF ts_can_be_enabled([trx |-> trx'])
                               THEN NM_CHAN_ST_OP_DISABLED_OFFLINE
                               ELSE NM_CHAN_ST_OP_DISABLED_DEPENDENCY
              /\ ts_mo'.setattr_success = ts_mo.setattr_success)
        /\ (last'.ev \in { NM_EV_BBTRANSC_DISABLED, NM_EV_RCARRIER_DISABLED } =>
              /\ last'.rc = 0
              /\ ts_state' = ts_state
              /\ ts_mo' = ts_mo
              /\ out' = << >>)
    ]_vars

\* the carrier got enabled while the baseband transceiver is still disabled:
\* the channel keeps waiting in DEPENDENCY
C6_Witness ==
  /\ ChanDid(NM_EV_RCARRIER_ENABLED, NM_CHAN_ST_OP_DISABLED_DEPENDENCY)
  /\ trx.mo = NM_OPSTATE_ENABLED
  /\ trx.bb_transc = NM_OPSTATE_DISABLED
  /\ ts_state = NM_CHAN_ST_OP_DISABLED_DEPENDENCY

\* C7: in OFFLINE and ENABLED a carrier-disabled or baseband-disabled event
\* goes to DEPENDENCY if and only if ts_can_be_enabled no longer holds, else
\* the state stays; in ENABLED a disable command goes to OFFLINE.
C7_DisableEvents ==
  [][ last'.fsm = "chan" =>
        /\ ( ( /\ ts_state \in { NM_CHAN_ST_OP_DISABLED_OFFLINE, NM_CHAN_ST_OP_ENABLED }
               /\ last'.ev \in { NM_EV_BBTRANSC_DISABLED, NM_EV_RCARRIER_DISABLED } ) =>
               ts_state' = IF ~ts_can_be_enabled([trx |-> trx'])
                             THEN NM_CHAN_ST_OP_DISABLED_DEPENDENCY
                             ELSE ts_state )
        /\ ( (ts_state = NM_CHAN_ST_OP_ENABLED /\ last'.ev = NM_EV_DISABLE) =>
               ts_state' = NM_CHAN_ST_OP_DISABLED_OFFLINE )
    ]_vars

\* the carrier got disabled under an ENABLED channel that does not depend on
\* it: the channel stays ENABLED
C7_Witness ==
  /\ ChanDid(NM_EV_RCARRIER_DISABLED, NM_CHAN_ST_OP_ENABLED)
  /\ trx.mo = NM_OPSTATE_DISABLED
  /\ ts_state = NM_CHAN_ST_OP_ENABLED

\* C8: a negative acknowledgement of activation from the model layer is
\* forwarded as an activation nack with exactly the model's cause code, sets
\* opstart_success to false and leaves the FSM state (Channel FSM in
\* DEPENDENCY/OFFLINE, Site Manager FSM in OFFLINE), whether the model
\* answers later or from inside its activation routine.
C8_NackForwarded ==
  [][ /\ ( ( /\ last'.fsm = "chan" /\ last'.ev = NM_EV_OPSTART_NACK
             /\ ts_state \in { NM_CHAN_ST_OP_DISABLED_DEPENDENCY, NM_CHAN_ST_OP_DISABLED_OFFLINE } ) =>
             /\ out' = << << "OPSTART_NACK", last'.data.cause >> >>
             /\ last'.data.cause \in NackCauses
             /\ ts_state' = ts_state
             /\ ts_mo' = [ts_mo EXCEPT !.opstart_success = FALSE] )
      /\ ( ( /\ last'.fsm = "sm" /\ last'.ev = NM_EV_OPSTART_NACK
             /\ sm_state = NM_BTS_SM_ST_OP_DISABLED_OFFLINE ) =>
             /\ out' = << << "OPSTART_NACK", last'.data.cause >> >>
             /\ sm_state' = sm_state
             /\ sm_mo' = [sm_mo EXCEPT !.opstart_success = FALSE] )
      /\ ( ( /\ last'.ev = NM_EV_RX_OPSTART /\ last'.data.opstart = "sync_nack"
             /\ ModelOpstartCalled(out') ) =>
             /\ out' = << << "MODEL_OPSTART" >>, << "OPSTART_NACK", last'.data.cause >> >>
             /\ ts_state' = ts_state /\ sm_state' = sm_state
             /\ ts_mo' = [ts_mo EXCEPT !.opstart_success = FALSE]
             /\ sm_mo' = [sm_mo EXCEPT !.opstart_success = FALSE] )
    ]_vars

\* the model refused an activation in OFFLINE for lack of resources
C8_Witness ==
  /\ ChanDid(NM_EV_OPSTART_NACK, NM_CHAN_ST_OP_DISABLED_OFFLINE)
  /\ out = << << "OPSTART_NACK", "NM_NACK_RES_NOTAVAIL" >> >>
  /\ ts_state = NM_CHAN_ST_OP_DISABLED_OFFLINE

\* the last dispatch was of an event that is neither an all-state event nor
\* in the accepted-event set of the state it found
InvalidEvent(l) ==
  \/ /\ l.fsm = "chan"
     /\ l.ev \notin nm_chan_allstate_event_mask
     /\ l.ev \notin nm_chan_in_event_mask(l.pre)
  \/ /\ l.fsm = "sm"
     /\ l.ev \notin nm_bts_sm_allstate_event_mask
     /\ l.ev \notin nm_bts_sm_in_event_mask(l.pre)

\* C9 as stated: dispatching an event that is not valid in the current state
\* aborts the process.
C9_AsStated == InvalidEvent(last) => aborted

\* C9 (amended): an event that is not valid in the current state is refused
\* by the dispatch: an error is logged, -1 is returned, no handler runs, FSM
\* state, flags and published state are not modified, and the process is not
\* aborted; no accepted event reaches a handler's OSMO_ASSERT.
C9_InvalidEventRefused ==
  [][ /\ ~aborted'
      /\ ( InvalidEvent(last') =>
             /\ last'.rc = -1
             /\ out' = << << "LOG_ERROR_NOT_PERMITTED", last'.ev >> >>
             /\ ts_state' = ts_state /\ sm_state' = sm_state
             /\ Published(ts_mo') = Published(ts_mo)
             /\ Published(sm_mo') = Published(sm_mo)
             /\ ts_lchans' = ts_lchans /\ vamos_peer' = vamos_peer )
      /\ ( (last'.fsm \in { "chan", "sm" } /\ ~InvalidEvent(last')) => last'.rc = 0 )
    ]_vars

\* the baseband transceiver reported "enabled" to a channel that is ENABLED:
\* the event is refused and nothing else happens
C9_Witness ==
  /\ ChanDid(NM_EV_BBTRANSC_ENABLED, NM_CHAN_ST_OP_ENABLED)
  /\ last.rc = -1
  /\ ~aborted
  /\ ts_state = NM_CHAN_ST_OP_ENABLED

\* the children of the site manager: the GPRS NSE and the BTS of bts_list
Children == { << "nse" >> } \cup { << "bts", i >> : i \in 1..NumBts }

\* the positions in o at which `event` is dispatched to child `ch`
DispatchesTo(o, ch, event) == { i \in 1..Len(o) : o[i] = << "DISPATCH", ch, event >> }

\* C10: on OML_UP in NOTINSTALLED the site manager sends the
\* software-activated report, enters OFFLINE, and after that dispatches
\* OML_UP exactly once to the NSE and exactly once to every child BTS.
C10_OmlUpFanOut ==
  (last.fsm = "sm" /\ last.ev = NM_EV_OML_UP
   /\ last.pre = NM_BTS_SM_ST_OP_DISABLED_NOTINSTALLED) =>
    /\ sm_state = NM_BTS_SM_ST_OP_DISABLED_OFFLINE
    /\ Len(out) = 2 + Cardinality(Children)
    /\ out[1] = << "SW_ACT_REP" >>
    /\ out[2] = StateChgOf(sm_mo)
    /\ << out[2][2], out[2][3] >> = << NM_OPSTATE_DISABLED, NM_AVSTATE_OFF_LINE >>
    /\ \A ch \in Children :
         /\ Cardinality(DispatchesTo(out, ch, NM_EV_OML_UP)) = 1
         /\ \A i \in DispatchesTo(out, ch, NM_EV_OML_UP) : i > 2

\* OML_UP has been handled in NOTINSTALLED and the last BTS got its dispatch
C10_Witness ==
  /\ last.fsm = "sm" /\ last.ev = NM_EV_OML_UP
  /\ last.pre = NM_BTS_SM_ST_OP_DISABLED_NOTINSTALLED
  /\ sm_state = NM_BTS_SM_ST_OP_DISABLED_OFFLINE
  /\ out[Len(out)] = << "DISPATCH", << "bts", NumBts >>, NM_EV_OML_UP >>

\* the dispatches of the last top-level dispatch that went to a child BTS
BtsDispatches(o) ==
  LET toBts(m) == m[1] = "DISPATCH" /\ m[2][1] = "bts"
  IN SelectSeq(o, toBts)

\* the positions in o at which a state-change notification was sent
StateChgAt(o) == { i \in 1..Len(o) : o[i][1] = "STATE_CHG" }

\* C11: a shutdown event dispatched to the site manager reaches the child
\* BTS objects exactly once each, in BTS-list order; on SHUTDOWN_START the
\* site manager stays in its state, and on SHUTDOWN_FINISH every child has
\* been told before the site manager enters DISABLED_NOTINSTALLED.
C11_ShutdownFanOut ==
  (last.fsm = "sm" /\ last.ev \in { NM_EV_SHUTDOWN_START, NM_EV_SHUTDOWN_FINISH }) =>
    /\ BtsDispatches(out) = [ i \in 1..NumBts |-> << "DISPATCH", << "bts", i >>, last.ev >> ]
    /\ last.ev = NM_EV_SHUTDOWN_START => sm_state = last.pre
    /\ last.ev = NM_EV_SHUTDOWN_FINISH =>
         /\ sm_state = NM_BTS_SM_ST_OP_DISABLED_NOTINSTALLED
         /\ StateChgAt(out) # {}
         /\ \A i \in 1..Len(out) : \A j \in StateChgAt(out) :
              out[i][1] = "DISPATCH" => i < j

\* shutdown has been started and is then finished on an enabled site manager
C11_Witness ==
  /\ last.fsm = "sm" /\ last.ev = NM_EV_SHUTDOWN_FINISH
  /\ last.pre = NM_BTS_SM_ST_OP_ENABLED
  /\ Len(BtsDispatches(out)) = NumBts
  /\ out[Len(out)] = StateChgOf(sm_mo)
  /\ sm_state = NM_BTS_SM_ST_OP_DISABLED_NOTINSTALLED

\* C12: in DISABLED_OFFLINE the site manager acknowledges every
\* Set Attributes request and sets setattr_success, and hands every Opstart
\* request to the BTS model whatever setattr_success is; it sends no
\* negative answer of its own to either.
C12_OfflineNeverRefuses ==
  (last.fsm = "sm" /\ last.pre = NM_BTS_SM_ST_OP_DISABLED_OFFLINE) =>
    /\ last.ev = NM_EV_RX_SETATTR =>
         /\ out = << << "SETATTR_ACK" >> >>
         /\ sm_mo.setattr_success
         /\ sm_state = NM_BTS_SM_ST_OP_DISABLED_OFFLINE
    /\ last.ev = NM_EV_RX_OPSTART =>
         /\ Len(out) >= 1 /\ out[1] = << "MODEL_OPSTART" >>
         /\ last.data.opstart = "async" => out = << << "MODEL_OPSTART" >> >>

\* an Opstart arrives in OFFLINE although no Set Attributes was ever received
C12_Witness ==
  /\ last.fsm = "sm" /\ last.pre = NM_BTS_SM_ST_OP_DISABLED_OFFLINE
  /\ last.ev = NM_EV_RX_OPSTART /\ last.data.opstart = "async"
  /\ ~sm_mo.setattr_success
  /\ out = << << "MODEL_OPSTART" >> >>

\* a scan over one whole period of the channel has ended
PeriodDone ==
  /\ meas_last.op = "is_meas_complete"
  /\ clock % modulus_by_lchan(lchan) = 0

\* C13: for every channel configuration with a measurement period, among the
\* frame numbers of one period (104 frames on TCH, 102 on SDCCH)
\* is_meas_complete is true for exactly one.
C13_OneEndPerPeriod ==
  /\ hits <= 1
  /\ PeriodDone => hits = 1

\* a whole period of an SDCCH/8 sub-slot whose table entry is 0 was scanned
C13_Witness ==
  /\ PeriodDone
  /\ hits = 1
  /\ lchan.pchan = "SDCCH8_SACCH8C" /\ lchan.nr = 5
  /\ clock = 10608 + 102

\* the last call was one of the two entry points and completed a period
MeasCompleted ==
  /\ meas_last.op \in { "check_compute", "process_measurement" }
  /\ meas_last.rc = 1

\* this step calls lchan_meas_check_compute again with the frame number at
\* which the call before it completed a period
ComputeAgain ==
  /\ MeasCompleted
  /\ meas_last'.op = "check_compute"
  /\ meas_last'.fn = meas_last.fn

\* C14 as stated: computing again at the same frame number right after a
\* completed period is a no-op, the stored RX levels and RX qualities stay
\* and no completed period is reported.
C14_AsStated ==
  [][ ComputeAgain =>
        /\ meas_last'.rc = 0
        /\ lchan'.meas.ul_res = lchan.meas.ul_res ]_vars

\* the stored result of a period without any sample: RX level of -109 dBm,
\* RX quality 7, FULL and SUB
EmptyPeriodRes ==
  [ full |-> [ rx_lev |-> dbm2rxlev(-109), rx_qual |-> 7 ],
    sub |-> [ rx_lev |-> dbm2rxlev(-109), rx_qual |-> 7 ] ]

\* C14: computing again at the same frame number right after a completed
\* period completes a period once more (returns 1) over the empty buffer: the
\* stored RX levels and RX qualities become those of a period without
\* samples, while the mean timing offset, the C/I means, the extended
\* statistics, the flags and the empty buffer stay as they are.
C14_ComputedAgain ==
  [][ ComputeAgain =>
        /\ meas_last'.rc = 1
        /\ lchan'.meas.ul_res = EmptyPeriodRes
        /\ lchan'.meas = [lchan.meas EXCEPT !.ul_res = EmptyPeriodRes]
        /\ lchan.meas.uplink = << >> ]_vars

\* a period was completed a second time over an empty buffer, and that
\* changed a stored result
C14_Witness ==
  /\ meas_last.op = "check_compute" /\ meas_last.rc = 1
  /\ hits = 2
  /\ meas_last.pre.uplink = << >>
  /\ "LC_UL_M_F_RES_VALID" \in meas_last.pre.flags
  /\ meas_last.pre.ul_res # lchan.meas.ul_res
  /\ lchan.meas.ul_res = EmptyPeriodRes

\* the sample buffer that the last call's period computation found: the
\* buffer before the call, with the call's own sample when it recorded one
MeasBuffer ==
  IF meas_last.op = "process_measurement"
    THEN lchan_new_ul_meas([lchan EXCEPT !.meas = meas_last.pre],
                           meas_last.ulm, meas_last.fn).lchan.meas.uplink
    ELSE meas_last.pre.uplink

\* the number of samples the channel's period is expected to have
MeasExpected == meas_last.loc.num_ul_meas_expect

\* the samples missing in the buffer
MeasMissing ==
  IF Len(MeasBuffer) < MeasExpected THEN MeasExpected - Len(MeasBuffer) ELSE 0

\* the most recent samples of the buffer, at most as many as expected
MeasUsed ==
  IF Len(MeasBuffer) > MeasExpected
    THEN SubSeq(MeasBuffer, Len(MeasBuffer) - MeasExpected + 1, Len(MeasBuffer))
    ELSE MeasBuffer

\* the sum of field f over the samples of q
RECURSIVE SumField(_, _)
SumField(q, f) == IF q = << >> THEN 0 ELSE Head(q)[f] + SumField(Tail(q), f)

\* C15: the FULL BER average of a completed period is the sum of the ber10k
\* of the real samples used plus 10000 for every missing sample, divided by
\* the expected sample count; without missing samples it is the mean of the
\* real samples used.
C15_FullBer ==
  MeasCompleted =>
    /\ meas_last.loc.ber_full_sum
         = (SumField(MeasUsed, "ber10k") + 10000 * MeasMissing) \div MeasExpected
    /\ MeasMissing = 0 =>
         meas_last.loc.ber_full_sum = SumField(MeasUsed, "ber10k") \div Len(MeasUsed)
    /\ lchan.meas.ul_res.full.rx_qual = ber10k_to_rxqual(meas_last.loc.ber_full_sum)

\* an SDCCH period completes with two of its three samples, both with bit errors
C15_Witness ==
  /\ MeasCompleted
  /\ MeasExpected = 3 /\ MeasMissing = 1
  /\ SumField(MeasUsed, "ber10k") = 1335
  /\ meas_last.loc.ber_full_sum = 3778

\* C16: on a non-AMR channel the dummies standing in for missing samples
\* are counted as SUB only until the expected SUB count is met, so the
\* samples entering the SUB BER average (real SUB samples and promoted
\* dummies) do not exceed the expected SUB count because of a promotion.
C16_DummySubBounded ==
  (MeasCompleted /\ lchan.tch_mode # "SPEECH_AMR" /\ MeasMissing > 0) =>
    /\ meas_last.loc.num_meas_sub
         = meas_last.loc.num_meas_sub_actual + meas_last.loc.num_meas_sub_subst
    /\ meas_last.loc.num_meas_sub_subst > 0 =>
         meas_last.loc.num_meas_sub <= meas_last.loc.num_meas_sub_expect

\* C17: a period that completes without any received sample has a FULL BER
\* average of 10000, RX quality class 7, and the FULL RX level of -109 dBm.
C17_EmptyPeriod ==
  (MeasCompleted /\ MeasBuffer = << >>) =>
    /\ meas_last.loc.ber_full_sum = 10000
    /\ lchan.meas.ul_res.full.rx_qual = 7
    /\ meas_last.loc.irssi_full_sum = 109
    /\ lchan.meas.ul_res.full.rx_lev = dbm2rxlev(-109)

\* the period of a speech channel ends and not one block was received
C17_Witness ==
  /\ MeasCompleted /\ meas_last.op = "check_compute"
  /\ MeasBuffer = << >>
  /\ hits = 1
  /\ lchan.pchan = "TCH_F" /\ lchan.tch_mode = "SPEECH_V1"
  /\ meas_last.loc.num_ul_meas_subst = 25
  /\ lchan.meas.ul_res.full = [ rx_lev |-> 1, rx_qual |-> 7 ]

\* the least and the greatest timing offset among the samples of q
MinToa(q) == CHOOSE x \in { q[i].ta_offs_256bits : i \in 1..Len(q) } :
               \A j \in 1..Len(q) : x <= q[j].ta_offs_256bits
MaxToa(q) == CHOOSE x \in { q[i].ta_offs_256bits : i \in 1..Len(q) } :
               \A j \in 1..Len(q) : x >= q[j].ta_offs_256bits

\* what the last call would have left behind had the buffer held only the
\* samples of MeasUsed
MeasOfUsedAlone ==
  lchan_meas_check_compute(
    [lchan EXCEPT !.meas = [meas_last.pre EXCEPT !.uplink = MeasUsed,
                                                 !.last_fn = lchan.meas.last_fn]],
    meas_last.fn)

\* C18: when more samples than expected were recorded, the BER, C/I and
\* timing-offset means and the extended statistics are those of the most
\* recent `expected` samples, and every stored result is what it would be
\* had the older samples never been recorded.
C18_ExcessDiscarded ==
  (MeasCompleted /\ Len(MeasBuffer) > MeasExpected) =>
    /\ Len(MeasUsed) = MeasExpected
    /\ meas_last.loc.num_ul_meas_actual = MeasExpected
    /\ meas_last.loc.ber_full_sum = SumField(MeasUsed, "ber10k") \div MeasExpected
    /\ lchan.meas.ms_toa256 = c_div(SumField(MeasUsed, "ta_offs_256bits"), MeasExpected)
    /\ lchan.meas.ul_ci_cb_full = c_div(SumField(MeasUsed, "ci_cb"), MeasExpected)
    /\ SumField(MeasUsed, "inv_rssi") > 0 =>
         lchan.meas.ul_res.full.rx_lev
           = dbm2rxlev(-(SumField(MeasUsed, "inv_rssi") \div MeasExpected))
    /\ lchan.meas.ext.toa256_min = MinToa(MeasUsed)
    /\ lchan.meas.ext.toa256_max = MaxToa(MeasUsed)
    /\ lchan.meas = MeasOfUsedAlone.lchan.meas

\* an SDCCH period completes with four samples; the oldest one has the worst
\* BER and the greatest timing offset of the four
C18_Witness ==
  /\ MeasCompleted
  /\ Len(MeasBuffer) = 4 /\ MeasExpected = 3
  /\ meas_last.loc.num_ul_meas_excess = 1
  /\ MeasBuffer[1].ber10k = 1300 /\ MeasBuffer[1].ta_offs_256bits = 255
  /\ meas_last.loc.ber_full_sum = 0
  /\ lchan.meas.ext.toa256_max = -100

\* C19: when a completed period used at least one real sample, the FULL
\* timing offset and C/I are the integer means over the real samples used and
\* the FULL RX level is that of the mean inverted RSSI of those samples,
\* whatever the sample values are and however many dummies were substituted.
C19_RealMeans ==
  (MeasCompleted /\ Len(MeasUsed) >= 1) =>
    /\ meas_last.loc.num_ul_meas_actual = Len(MeasUsed)
    /\ lchan.meas.ms_toa256 = c_div(SumField(MeasUsed, "ta_offs_256bits"), Len(MeasUsed))
    /\ lchan.meas.ul_ci_cb_full = c_div(SumField(MeasUsed, "ci_cb"), Len(MeasUsed))
    /\ lchan.meas.ul_res.full.rx_lev
         = dbm2rxlev(-(SumField(MeasUsed, "inv_rssi") \div Len(MeasUsed)))

\* C20 as stated: after the 24 traffic blocks and the SACCH block of one
\* period of a TCH/F speech channel the period is reported complete, the
\* FULL average is over all 25 samples and the SUB average over exactly 1.
C20_AsStated ==
  MeasCompleted =>
    /\ Len(MeasBuffer) = 25
    /\ meas_last.loc.num_ul_meas_actual = 25
    /\ meas_last.loc.num_meas_sub = 1

\* C20: after the 24 traffic blocks (handed over as non-SUB) and the SACCH
\* block (handed over as SUB) of one period of a TCH/F speech channel the
\* period is reported complete and the FULL average is over all 25 samples;
\* the SUB average is over 2 samples with FR or EFR speech, the SACCH block
\* and the traffic block at frame 52 of the 104 (which the frame-position
\* rule marks SUB), and over the SACCH block alone with AMR.
C20_EndToEnd ==
  MeasCompleted =>
    /\ clock % 104 = (PeriodEndFn(lchan) + 1) % 104
    /\ Len(MeasBuffer) = 25
    /\ meas_last.loc.num_ul_meas_actual = 25
    /\ meas_last.loc.num_ul_meas_subst = 0
    /\ meas_last.loc.ber_full_sum = (24 * 200) \div 25
    /\ meas_last.loc.num_meas_sub = meas_last.loc.num_meas_sub_actual
    /\ IF lchan.tch_mode = "SPEECH_AMR"
         THEN /\ meas_last.loc.num_meas_sub = 1
              /\ meas_last.loc.ber_sub_sum = 0
         ELSE /\ meas_last.loc.num_meas_sub = 2
              /\ meas_last.loc.ber_sub_sum = 100
              /\ meas_last.loc.irssi_sub_sum = 70

\* the period of an EFR channel on timeslot 7 has completed
C20_Witness ==
  /\ MeasCompleted
  /\ lchan.tch_mode = "SPEECH_EFR" /\ lchan.ts_nr = 7
  /\ hits = 1
  /\ Len(MeasBuffer) = 25
  /\ meas_last.loc.num_meas_sub = 2

\* the last call was lchan_meas_process_measurement on a full sample buffer
MeasOnFull ==
  /\ meas_last.op = "process_measurement"
  /\ Len(meas_last.pre.uplink) >= lchan.uplink_size

\* C24: the sample count never exceeds the capacity of the buffer.  A sample
\* arriving at a full buffer is refused with -ENOSPC and the buffer, the count
\* and last_fn stay as they were; the end of the period is still evaluated for
\* that frame: away from it nothing changes, at it the period is computed from
\* the buffer without the refused sample.
C24_FullBufferRefuses ==
  /\ Len(lchan.meas.uplink) <= lchan.uplink_size
  /\ MeasOnFull =>
       /\ meas_last.rc_new = "ENOSPC"
       /\ MeasBuffer = meas_last.pre.uplink
       /\ lchan.meas.last_fn = meas_last.pre.last_fn
       /\ IF is_meas_complete(lchan, meas_last.fn)
            THEN /\ meas_last.rc = 1
                 /\ lchan.meas.uplink = << >>
                 /\ "LC_UL_M_F_RES_VALID" \in lchan.meas.flags
                 /\ meas_last.loc.num_ul_meas_actual = Len(MeasUsed)
                 /\ meas_last.loc.ber_full_sum
                      = (SumField(MeasUsed, "ber10k") + MeasMissing * MEASUREMENT_DUMMY_BER)
                          \div MeasExpected
            ELSE /\ meas_last.rc = 0
                 /\ lchan.meas = meas_last.pre

\* a sample arrives at a full buffer at the last frame of the period, and the
\* period is computed
C24_Witness ==
  /\ MeasOnFull
  /\ meas_last.rc_new = "ENOSPC"
  /\ meas_last.rc = 1
  /\ Len(meas_last.pre.uplink) = lchan.uplink_size
  /\ lchan.meas.uplink = << >>

\* C25: lchan_meas_check_compute called for a frame that does not end the
\* channel's measurement period returns 0 and leaves the sample buffer, the
\* sample count, last_fn, the stored results and the flags as they were.
C25_NoOpUnlessComplete ==
  (meas_last.op = "check_compute" /\ ~is_meas_complete(lchan, meas_last.fn)) =>
    /\ meas_last.rc = 0
    /\ lchan.meas = meas_last.pre

\* the call is made while samples of the running period are in the buffer
C25_Witness ==
  /\ meas_last.op = "check_compute"
  /\ ~is_meas_complete(lchan, meas_last.fn)
  /\ modulus_by_lchan(lchan) > 1
  /\ Len(meas_last.pre.uplink) >= 2
  /\ lchan.meas.uplink = meas_last.pre.uplink

\* the sample the last lchan_meas_process_measurement call put in the buffer
MeasRecorded == MeasBuffer[Len(MeasBuffer)]

\* C26: a sample the caller marked as SUB is recorded as SUB whatever its
\* frame position; a sample the caller did not mark is recorded with the
\* classification of ts45008_83_is_sub for the channel and the frame.  All
\* other fields are recorded as handed over.
C26_SubFromCaller ==
  (meas_last.op = "process_measurement" /\ meas_last.rc_new = "0") =>
    /\ Len(MeasBuffer) = Len(meas_last.pre.uplink) + 1
    /\ MeasRecorded.is_sub
         = (meas_last.ulm.is_sub \/ ts45008_83_is_sub(lchan, meas_last.fn))
    /\ meas_last.ulm.is_sub => MeasRecorded.is_sub
    /\ [MeasRecorded EXCEPT !.is_sub = meas_last.ulm.is_sub] = meas_last.ulm

\* a sample marked SUB by the caller is recorded as SUB at a frame where the
\* frame-position rule says non-SUB
C26_Witness ==
  /\ meas_last.op = "process_measurement" /\ meas_last.rc_new = "0"
  /\ meas_last.rc = 0
  /\ meas_last.ulm.is_sub
  /\ ~ts45008_83_is_sub(lchan, meas_last.fn)
  /\ lchan.meas.uplink[Len(lchan.meas.uplink)].is_sub

\* the samples lchan_meas_compute_extended used in the last call: the most
\* recent ones of the buffer, at most as many as the period is expected to have
ToaExpected == lchan_meas_num_expected([lchan EXCEPT !.meas = meas_last.pre])
ToaUsed ==
  LET q == meas_last.pre.uplink
  IN IF Len(q) > ToaExpected THEN SubSeq(q, Len(q) - ToaExpected + 1, Len(q)) ELSE q

\* the mean that the timing offsets were compared with
ToaMean ==
  IF meas_last.op = "compute_extended" THEN meas_last.pre.ms_toa256
  ELSE lchan.meas.ms_toa256

\* |ta - mean| of a sample, and of a timing offset t
ToaDevOf(t) == IF t < ToaMean THEN ToaMean - t ELSE t - ToaMean
ToaDev(m) == ToaDevOf(m.ta_offs_256bits)

\* the exact sum of the squared deviations of the samples of q whose timing
\* offset is in T: each distinct offset counted as often as it occurs
RECURSIVE ToaSqSumOver(_, _)
ToaSqSumOver(q, T) ==
  IF T = {} THEN << 0, 0 >>
  ELSE LET t == CHOOSE x \in T : TRUE
           n == Cardinality({ i \in 1..Len(q) : q[i].ta_offs_256bits = t })
           x == wide_sq(ToaDevOf(t))
           y == ToaSqSumOver(q, T \ { t })
       IN wide(n * x[1] + y[1], n * x[2] + y[2])

ToaSqSum(q) == ToaSqSumOver(q, { q[i].ta_offs_256bits : i \in 1..Len(q) })

\* C23: whatever int16 timing offsets the buffer holds and whatever int16 mean
\* is stored, up to a full buffer, every squared deviation is below 2^32 (the
\* uint32_t product equals the exact square), the mean squared deviation is at
\* most 2^32-1, the assertion before the integer square root holds, and the
\* standard deviation stored is the floor of the exact root.
C23_NoOverflow ==
  (meas_last.op \in { "compute_extended", "check_compute" } /\ meas_last.pre.uplink # << >>) =>
    /\ ~aborted
    /\ \A i \in 1..Len(ToaUsed) :
         /\ ToaDev(ToaUsed[i]) <= 65535
         /\ to_uint32(wide_sq(ToaDev(ToaUsed[i]))) = wide_sq(ToaDev(ToaUsed[i]))
    /\ fits_uint32(wide_div(ToaSqSum(ToaUsed), Len(ToaUsed)))
    /\ "LC_UL_M_F_OSMO_EXT_VALID" \in lchan.meas.flags
    /\ wide_le(wide_sq(lchan.meas.ext.toa256_std_dev),
               wide_div(ToaSqSum(ToaUsed), Len(ToaUsed)))
    /\ ~wide_le(wide_sq(lchan.meas.ext.toa256_std_dev + 1),
                wide_div(ToaSqSum(ToaUsed), Len(ToaUsed)))

\* a full buffer of MAX_NUM_UL_MEAS samples, each at the greatest possible
\* distance from the stored mean: the standard deviation is 65535
C23_Witness ==
  /\ meas_last.op = "compute_extended"
  /\ Len(meas_last.pre.uplink) = MAX_NUM_UL_MEAS
  /\ Len(ToaUsed) = MAX_NUM_UL_MEAS
  /\ meas_last.pre.ms_toa256 = INT16_MAX
  /\ ToaUsed[1].ta_offs_256bits = INT16_MIN
  /\ lchan.meas.ext.toa256_std_dev = 65535
  /\ ~aborted

\* the sum of the squared differences between the timing offsets of the
\* samples of q and `mean`
RECURSIVE SqDevSum(_, _)
SqDevSum(q, mean) ==
  IF q = << >> THEN 0
  ELSE (Head(q).ta_offs_256bits - mean) * (Head(q).ta_offs_256bits - mean)
         + SqDevSum(Tail(q), mean)

\* s is the integer square root of x
IsIsqrt(s, x) == s * s <= x /\ x < (s + 1) * (s + 1)

\* the standard deviation stored is that of the used samples around `mean`
StdDevAround(mean) ==
  IsIsqrt(lchan.meas.ext.toa256_std_dev, SqDevSum(MeasUsed, mean) \div Len(MeasUsed))

\* C22 as stated: the standard deviation of a completed period is the integer
\* square root of the mean squared deviation of the used samples' timing
\* offsets from the mean timing offset stored before the computation.
C22_AsStated ==
  (MeasCompleted /\ Len(MeasUsed) >= 1) => StdDevAround(meas_last.pre.ms_toa256)

\* C22: the standard deviation of a completed period is the integer square
\* root of the mean squared deviation of the used samples' timing offsets
\* from the mean timing offset of this very period, which is stored (truncated
\* towards zero) before the extended statistics are computed.
C22_DevFromNewMean ==
  (MeasCompleted /\ Len(MeasUsed) >= 1) =>
    /\ lchan.meas.ms_toa256 = c_div(SumField(MeasUsed, "ta_offs_256bits"), Len(MeasUsed))
    /\ StdDevAround(lchan.meas.ms_toa256)

\* two equal samples far from the mean stored before: the standard deviation
\* is 0, not their distance from the earlier mean
C22_Witness ==
  /\ MeasCompleted
  /\ Len(MeasUsed) = 2
  /\ MeasUsed[1].ta_offs_256bits = 255 /\ MeasUsed[2].ta_offs_256bits = 255
  /\ meas_last.pre.ms_toa256 = 0
  /\ lchan.meas.ms_toa256 = 255
  /\ lchan.meas.ext.toa256_std_dev = 0

\* C21: after lchan_meas_check_compute has completed a period, the flag
\* LC_UL_M_F_OSMO_EXT_VALID is set only if at least one real sample was in
\* the buffer of that period, whatever samples were recorded, periods
\* completed and SACCH blocks handled before.
C21_ExtOnlyWithSamples ==
  MeasCompleted =>
    ("LC_UL_M_F_OSMO_EXT_VALID" \in lchan.meas.flags => Len(MeasBuffer) >= 1)

\* the last step handled a SACCH block
SacchHandled == meas_last.op = "handle_sacch"

\* the block was a full SACCH block with a Measurement Report
IsMeasRep(msg) ==
  /\ msg.l2len = GSM_MACBLOCK_LEN
  /\ msg.lapdm_addr = 1 /\ msg.lapdm_ctrl = 3
  /\ msg.proto_discr = "GSM48_PDISC_RR"
  /\ msg.msg_type = "GSM48_MT_RR_MEAS_REP"

\* ... whose Measurement Results are valid
IsValidMeasRep(msg) == IsMeasRep(msg) /\ msg.mr.meas_valid = 0

\* the arguments lchan_ms_pwr_ctrl gets when the FULL (the SUB) results of
\* the channel before the block are fed to it
PwrCtrlArgs(which) ==
  LET l == meas_last.pre_lchan
  IN [ ms_pwr |-> IF meas_last.msg.l2len = GSM_MACBLOCK_LEN
                    THEN meas_last.msg.l1h.ms_pwr ELSE l.ms_power_ctrl.current,
       ul_rssi |-> l.meas.ul_res[which].rx_lev - 110,
       ul_ci_cb |-> IF which = "sub" THEN l.meas.ul_ci_cb_sub ELSE l.meas.ul_ci_cb_full ]

\* C27 as stated: at every SACCH block the MS power control loop is fed the
\* SUB results (RX level, C/I) when the MS report says that DTX was used on
\* the uplink, and the FULL results otherwise.
C27_AsStated ==
  SacchHandled =>
    meas_last.calls.lchan_ms_pwr_ctrl
      = PwrCtrlArgs(IF IsMeasRep(meas_last.msg) /\ meas_last.msg.mr.dtx_used = 1
                      THEN "sub" ELSE "full")

\* C27: at every SACCH block the MS power control loop is fed the FULL
\* results (RX level in dBm, C/I) of the channel when the block carries a
\* valid Measurement Report that says DTX was not used, and the SUB results in
\* every other case: DTX reported, report invalid, no report in the block.
C27_SubUnlessReportedOff ==
  SacchHandled =>
    meas_last.calls.lchan_ms_pwr_ctrl
      = PwrCtrlArgs(IF IsValidMeasRep(meas_last.msg) /\ meas_last.msg.mr.dtx_used = 0
                      THEN "full" ELSE "sub")

\* a block without a report on a channel whose FULL and SUB results differ:
\* the loop gets the SUB level and C/I
C27_Witness ==
  /\ SacchHandled
  /\ ~IsMeasRep(meas_last.msg)
  /\ "LC_UL_M_F_RES_VALID" \in meas_last.pre.flags
  /\ meas_last.pre.ul_res.full.rx_lev # meas_last.pre.ul_res.sub.rx_lev
  /\ meas_last.pre.ul_ci_cb_full # meas_last.pre.ul_ci_cb_sub
  /\ meas_last.calls.lchan_ms_pwr_ctrl.ul_rssi = meas_last.pre.ul_res.sub.rx_lev - 110
  /\ meas_last.calls.lchan_ms_pwr_ctrl.ul_ci_cb = meas_last.pre.ul_ci_cb_sub

\* the three downlink decisions of a channel
DlDecisions(l) ==
  [ bs_power |-> l.bs_power_ctrl.current,
    top_acch |-> l.top_acch_active,
    dl_facch |-> l.rep_acch.dl_facch_active ]

\* C28 as stated: a SACCH block without a Measurement Report, or with one
\* marked invalid, leaves the BS power reduction, the temporary ACCH overpower
\* decision and the FACCH repetition decision as they were.
C28_AsStated ==
  (SacchHandled /\ ~IsValidMeasRep(meas_last.msg)) =>
    DlDecisions(lchan) = DlDecisions(meas_last.pre_lchan)

\* C28: such a block leaves the BS power reduction and the temporary ACCH
\* overpower decision as they were, and the BS power control loop is not
\* called.  The FACCH repetition decision is still evaluated: it is off
\* without a repeated FACCH capability, on with the threshold disabled (0) or
\* with the SRR bit set in the L1 header last received, and as it was only in
\* the remaining case.
C28_NoReportKeeps ==
  (SacchHandled /\ ~IsValidMeasRep(meas_last.msg)) =>
    /\ ~meas_last.calls.lchan_bs_pwr_ctrl
    /\ DlDecisions(lchan).bs_power = DlDecisions(meas_last.pre_lchan).bs_power
    /\ DlDecisions(lchan).top_acch = DlDecisions(meas_last.pre_lchan).top_acch
    /\ DlDecisions(lchan).dl_facch
         = (IF ~lchan.rep_acch_cap.dl_facch_cmd /\ ~lchan.rep_acch_cap.dl_facch_all
              THEN FALSE
            ELSE IF lchan.rep_acch_cap.rxqual = 0 THEN TRUE
            ELSE IF lchan.meas.l1_info.srr_sro # 0 THEN TRUE
            ELSE DlDecisions(meas_last.pre_lchan).dl_facch)

\* an invalid report with the worst RXQUAL arrives while all three decisions
\* differ from what a valid one would make them: nothing changes
C28_Witness ==
  /\ SacchHandled
  /\ IsMeasRep(meas_last.msg) /\ meas_last.msg.mr.meas_valid = 1
  /\ meas_last.msg.mr.rxqual_full = 4 /\ meas_last.msg.mr.rxqual_sub = 4
  /\ meas_last.msg.l1h.srr_sro = 0
  /\ lchan.rep_acch_cap.dl_facch_cmd /\ lchan.rep_acch_cap.rxqual = 4
  /\ lchan.top_acch_cap.overpower_db = 2 /\ lchan.top_acch_cap.rxqual = 4
  /\ meas_last.env.bs_pwr = 8
  /\ DlDecisions(meas_last.pre_lchan) = [ bs_power |-> 4, top_acch |-> FALSE, dl_facch |-> FALSE ]
  /\ DlDecisions(lchan) = DlDecisions(meas_last.pre_lchan)

\* the RXQUAL of the report a decider looks at
ReportedRxQual ==
  IF meas_last.msg.mr.dtx_used = 1 THEN meas_last.msg.mr.rxqual_sub
  ELSE meas_last.msg.mr.rxqual_full

\* what a decider with threshold U makes of the reported RXQUAL when the
\* decision was `old`
Hysteresis(U, old) ==
  IF ReportedRxQual >= U THEN TRUE
  ELSE IF ReportedRxQual <= (IF U > 2 THEN U - 2 ELSE 0) THEN FALSE
  ELSE old

\* C29 as stated: with a threshold U > 0 and a valid report, the FACCH
\* repetition decision and the ACCH overpower decision become active for
\* rxqual >= U, inactive for rxqual <= max(U-2, 0) and stay as they were in
\* between; rxqual is RXQUAL-SUB when the report says DTX was used, else
\* RXQUAL-FULL.
C29_AsStated ==
  (SacchHandled /\ IsValidMeasRep(meas_last.msg)) =>
    /\ lchan.rep_acch_cap.rxqual > 0 =>
         DlDecisions(lchan).dl_facch
           = Hysteresis(lchan.rep_acch_cap.rxqual, DlDecisions(meas_last.pre_lchan).dl_facch)
    /\ lchan.top_acch_cap.rxqual > 0 =>
         DlDecisions(lchan).top_acch
           = Hysteresis(lchan.top_acch_cap.rxqual, DlDecisions(meas_last.pre_lchan).top_acch)

\* C29: with a valid report the two decisions follow the hysteresis on the
\* reported RXQUAL provided the threshold is above 0, the capability is there
\* (a repeated FACCH capability; an overpower value above 0) and, for FACCH
\* repetition, the SRR bit of the block's L1 header is not set.  Otherwise
\* FACCH repetition is off without the capability, else on with threshold 0 or
\* with the SRR bit set; the overpower decision stays as it was.
C29_Hysteresis ==
  (SacchHandled /\ IsValidMeasRep(meas_last.msg)) =>
    /\ DlDecisions(lchan).dl_facch
         = (IF ~lchan.rep_acch_cap.dl_facch_cmd /\ ~lchan.rep_acch_cap.dl_facch_all
              THEN FALSE
            ELSE IF lchan.rep_acch_cap.rxqual = 0 THEN TRUE
            ELSE IF meas_last.msg.l1h.srr_sro # 0 THEN TRUE
            ELSE Hysteresis(lchan.rep_acch_cap.rxqual,
                            DlDecisions(meas_last.pre_lchan).dl_facch))
    /\ DlDecisions(lchan).top_acch
         = (IF lchan.top_acch_cap.overpower_db = 0 \/ lchan.top_acch_cap.rxqual = 0
              THEN DlDecisions(meas_last.pre_lchan).top_acch
            ELSE Hysteresis(lchan.top_acch_cap.rxqual,
                            DlDecisions(meas_last.pre_lchan).top_acch))

\* both decisions are active and a valid report with DTX used has RXQUAL-SUB
\* between the thresholds and RXQUAL-FULL below them: both stay active
C29_Witness ==
  /\ SacchHandled /\ IsValidMeasRep(meas_last.msg)
  /\ meas_last.msg.l1h.srr_sro = 0
  /\ meas_last.msg.mr.dtx_used = 1
  /\ meas_last.msg.mr.rxqual_sub = 3 /\ meas_last.msg.mr.rxqual_full = 0
  /\ lchan.rep_acch_cap.dl_facch_all /\ lchan.rep_acch_cap.rxqual = 4
  /\ lchan.top_acch_cap.overpower_db = 2 /\ lchan.top_acch_cap.rxqual = 4
  /\ meas_last.pre_lchan.rep_acch.dl_facch_active /\ meas_last.pre_lchan.top_acch_active
  /\ lchan.rep_acch.dl_facch_active /\ lchan.top_acch_active

\* C30: in the A-bis link FSM FAILED is terminal: whatever is called while
\* the FSM is in FAILED leaves it in FAILED, no timer of the FSM is pending
\* while it rests in any state, and bts_model_abis_close has been called
\* exactly once when the FSM is in FAILED and never before.
C30_FailedTerminal ==
  /\ (abis_last.pre.fi /\ abis_last.pre.state = ABIS_LINK_ST_FAILED) =>
       (abis.state = ABIS_LINK_ST_FAILED /\ abis.closed = abis_last.pre.closed)
  /\ ~abis.timer
  /\ abis.closed = (IF abis.fi /\ abis.state = ABIS_LINK_ST_FAILED THEN 1 ELSE 0)

\* a link-down signal arrives while the FSM is in FAILED and is refused
C30_Witness ==
  /\ abis_last.op = ABIS_LINK_EV_SIGN_LINK_DOWN
  /\ abis_last.pre.fi /\ abis_last.pre.state = ABIS_LINK_ST_FAILED
  /\ abis_last.rc = -1
  /\ abis.state = ABIS_LINK_ST_FAILED
  /\ abis.closed = 1

\* a link-down signal was handled while the FSM was in CONNECTED
LinkDownInConnected ==
  /\ abis_last.op = ABIS_LINK_EV_SIGN_LINK_DOWN
  /\ abis_last.pre.fi /\ abis_last.pre.state = ABIS_LINK_ST_CONNECTED

\* a signalling link exists
AnyLink(a) == a.oml_link \/ \E t \in DOMAIN a.rsl_link : a.rsl_link[t]

\* C31 as stated: on a link-down signal while CONNECTED all signalling links
\* are gone afterwards; if one existed the FSM is in FAILED and no connection
\* attempt was made; if none existed the FSM entered CONNECTING and made a
\* new connection attempt.
C31_AsStated ==
  LinkDownInConnected =>
    /\ ~AnyLink(abis)
    /\ AnyLink(abis_last.pre) =>
         /\ abis.state = ABIS_LINK_ST_FAILED
         /\ abis.attempts = abis_last.pre.attempts
    /\ ~AnyLink(abis_last.pre) =>
         /\ abis.connecting = abis_last.pre.connecting + 1
         /\ Len(abis.attempts) = Len(abis_last.pre.attempts) + 1

\* C31: on a link-down signal while CONNECTED all signalling links are gone
\* afterwards.  If one existed the FSM goes to FAILED without entering
\* CONNECTING and without a connection attempt.  If none existed the FSM
\* enters CONNECTING once; a new connection attempt is made only if a next
\* host is left and a line is available, and the FSM then rests in CONNECTED
\* or, if the connection cannot be opened, in FAILED; without a next host or
\* a line no attempt is made and the FSM rests in FAILED.
C31_LinkDown ==
  LinkDownInConnected =>
    /\ ~AnyLink(abis)
    /\ AnyLink(abis_last.pre) =>
         /\ abis.state = ABIS_LINK_ST_FAILED
         /\ abis.closed = 1
         /\ abis.connecting = abis_last.pre.connecting
         /\ abis.attempts = abis_last.pre.attempts
    /\ ~AnyLink(abis_last.pre) =>
         /\ abis.connecting = abis_last.pre.connecting + 1
         /\ IF abis_last.pre.bsc_oml_host # 0 /\ abis_last.env.line
              THEN /\ abis.attempts = Append(abis_last.pre.attempts, abis_last.pre.bsc_oml_host)
                   /\ abis.state = (IF abis_last.env.update THEN ABIS_LINK_ST_CONNECTED
                                    ELSE ABIS_LINK_ST_FAILED)
              ELSE /\ abis.attempts = abis_last.pre.attempts
                   /\ abis.state = ABIS_LINK_ST_FAILED

\* the link goes down with the OML link and an RSL link up while a second
\* host is still untried: FAILED, no attempt at the second host
C31_Witness ==
  /\ LinkDownInConnected
  /\ abis_last.pre.oml_link /\ abis_last.pre.rsl_link[1]
  /\ abis_last.pre.bsc_oml_host # 0
  /\ abis.state = ABIS_LINK_ST_FAILED
  /\ ~AnyLink(abis)
  /\ abis.attempts = abis_last.pre.attempts

\* the last call entered CONNECTING
EnteredConnecting == abis.connecting = abis_last.pre.connecting + 1

\* the host the next-candidate pointer referred to when CONNECTING was entered
Candidate ==
  IF abis_last.op = "abis_open" THEN abis_last.pre.hosts[1] ELSE abis_last.pre.bsc_oml_host

\* the host that follows h in the list, round-robin; the first one for h = 0
Follower(hosts, h) ==
  IF \E i \in 1..Len(hosts) : hosts[i] > h
    THEN hosts[CHOOSE i \in 1..Len(hosts) :
                 hosts[i] > h /\ \A j \in 1..(i - 1) : hosts[j] <= h]
    ELSE hosts[1]

\* C32 as stated: an entry into CONNECTING that takes a host takes the one
\* that follows the previously attempted host in round-robin list order; an
\* entry that cannot take a host, get a line or open the connection ends in
\* FAILED.
C32_AsStated ==
  EnteredConnecting =>
    /\ abis.line_ctr # abis_last.pre.line_ctr =>
         abis.addr = Follower(abis_last.pre.hosts, abis_last.pre.addr)
    /\ (abis.line_ctr = abis_last.pre.line_ctr
          \/ ~abis_last.env.line \/ ~abis_last.env.update) =>
         abis.state = ABIS_LINK_ST_FAILED

\* C32: an entry into CONNECTING takes the host the next-candidate pointer
\* refers to and moves the pointer to the host after it, or to none after the
\* last one (no wrap-around).  As long as no host was removed that is the host
\* after the previously attempted one.  Without a candidate, without a line or
\* when the connection cannot be opened the FSM rests in FAILED and the model
\* is told to close; otherwise it rests in CONNECTED.
C32_NextCandidate ==
  EnteredConnecting =>
    IF Candidate = 0
      THEN /\ abis.state = ABIS_LINK_ST_FAILED /\ abis.closed = 1
           /\ abis.line_ctr = abis_last.pre.line_ctr
           /\ abis.addr = abis_last.pre.addr
           /\ abis.attempts = abis_last.pre.attempts
      ELSE /\ abis.addr = Candidate
           /\ abis.line_ctr = abis_last.pre.line_ctr + 1
           /\ abis.bsc_oml_host =
                (IF Candidate = abis_last.pre.hosts[Len(abis_last.pre.hosts)] THEN 0
                 ELSE Follower(abis_last.pre.hosts, Candidate))
           /\ ~abis_last.pre.removed =>
                (Candidate > abis_last.pre.addr
                   /\ Candidate = Follower(abis_last.pre.hosts, abis_last.pre.addr))
           /\ IF abis_last.env.line /\ abis_last.env.update
                THEN /\ abis.state = ABIS_LINK_ST_CONNECTED /\ abis.closed = 0
                     /\ abis.attempts = Append(abis_last.pre.attempts, Candidate)
                ELSE abis.state = ABIS_LINK_ST_FAILED /\ abis.closed = 1

\* the candidate was removed when it was the last of three hosts: the host
\* attempted before is attempted again, not the first of the list
C32_Witness ==
  /\ EnteredConnecting
  /\ Len(abis_last.pre.hosts) >= 2
  /\ abis_last.pre.addr = abis_last.pre.hosts[Len(abis_last.pre.hosts)]
  /\ abis.addr = abis_last.pre.addr
  /\ abis.line_ctr = abis_last.pre.line_ctr + 1
  /\ abis.bsc_oml_host = 0

\* C33: when the model activation routine acknowledges synchronously, from
\* inside the handling of the activation request, the outer dispatch returns
\* with the FSM in ENABLED and opstart_success true, exactly one activation
\* ack was sent, and the state change to ENABLED made by the nested dispatch
\* is the only and the last thing that follows it (Channel FSM in OFFLINE or
\* DEPENDENCY with setattr_success true, Site Manager FSM in OFFLINE).
C33_SyncAck ==
  [][ /\ ( /\ last'.fsm = "chan" /\ last'.ev = NM_EV_RX_OPSTART
           /\ last'.data.opstart = "sync_ack"
           /\ ts_state \in { NM_CHAN_ST_OP_DISABLED_OFFLINE, NM_CHAN_ST_OP_DISABLED_DEPENDENCY }
           /\ ts_mo.setattr_success )
         => /\ ts_state' = NM_CHAN_ST_OP_ENABLED
            /\ ts_mo'.opstart_success
            /\ out' = << << "MODEL_OPSTART" >>, << "OPSTART_ACK" >>, StateChgOf(ts_mo') >>
            /\ last'.rc = 0
      /\ ( /\ last'.fsm = "sm" /\ last'.ev = NM_EV_RX_OPSTART
           /\ last'.data.opstart = "sync_ack"
           /\ sm_state = NM_BTS_SM_ST_OP_DISABLED_OFFLINE )
         => /\ sm_state' = NM_BTS_SM_ST_OP_ENABLED
            /\ sm_mo'.opstart_success
            /\ out' = << << "MODEL_OPSTART" >>, << "OPSTART_ACK" >>, StateChgOf(sm_mo') >>
            /\ last'.rc = 0
    ]_vars

\* a channel in DEPENDENCY was activated by a synchronous ack
C33_Witness ==
  /\ ChanDid(NM_EV_RX_OPSTART, NM_CHAN_ST_OP_DISABLED_DEPENDENCY)
  /\ last.data.opstart = "sync_ack"
  /\ ts_state = NM_CHAN_ST_OP_ENABLED
  /\ Len(out) = 3

\* the step enters ENABLED
EntersEnabled == ts_state # NM_CHAN_ST_OP_ENABLED /\ ts_state' = NM_CHAN_ST_OP_ENABLED

\* C34 as stated: the Channel FSM enters ENABLED only while ts_can_be_enabled
\* holds at the moment of entry.
C34_AsStated ==
  [][ EntersEnabled => ts_can_be_enabled([trx |-> trx']) ]_vars

\* C34 (amended): the Channel FSM enters ENABLED only by an activation ack
\* handled in OFFLINE or DEPENDENCY (dispatched on its own, or by the model
\* from inside an activation request that passed the setattr_success gate),
\* whatever ts_can_be_enabled says; the precondition is enforced only by the
\* carrier/baseband DISABLED events, which leave OFFLINE and ENABLED for
\* DEPENDENCY when it is false after them.
C34_EnabledByAck ==
  [][ /\ EntersEnabled =>
           /\ last'.fsm = "chan"
           /\ ts_state \in { NM_CHAN_ST_OP_DISABLED_OFFLINE, NM_CHAN_ST_OP_DISABLED_DEPENDENCY }
           /\ \E i \in 1..Len(out') : out'[i] = << "OPSTART_ACK" >>
           /\ \/ last'.ev = NM_EV_OPSTART_ACK
              \/ /\ last'.ev = NM_EV_RX_OPSTART
                 /\ last'.data.opstart = "sync_ack"
                 /\ ts_mo.setattr_success
      /\ ( /\ last'.fsm = "chan"
           /\ last'.ev \in { NM_EV_BBTRANSC_DISABLED, NM_EV_RCARRIER_DISABLED }
           /\ ts_state \in { NM_CHAN_ST_OP_DISABLED_OFFLINE, NM_CHAN_ST_OP_ENABLED }
           /\ ~ts_can_be_enabled([trx |-> trx']) )
         => ts_state' = NM_CHAN_ST_OP_DISABLED_DEPENDENCY
    ]_vars

\* a channel waiting in DEPENDENCY was enabled by an activation ack although
\* its baseband transceiver is not ENABLED
C34_Witness ==
  /\ ChanDid(NM_EV_OPSTART_ACK, NM_CHAN_ST_OP_DISABLED_DEPENDENCY)
  /\ ts_state = NM_CHAN_ST_OP_ENABLED
  /\ trx.bb_transc # NM_OPSTATE_ENABLED
  /\ ~ts_can_be_enabled([trx |-> trx])

\* C35: whenever no handler is running, opstart_success is true if and only
\* if the FSM is in ENABLED, for the Channel FSM and for the Site Manager FSM.
C35_OpstartIffEnabled ==
  /\ ts_mo.opstart_success <=> ts_state = NM_CHAN_ST_OP_ENABLED
  /\ sm_mo.opstart_success <=> sm_state = NM_BTS_SM_ST_OP_ENABLED

\* an enabled channel was disabled and its opstart_success is false again
C35_Witness ==
  /\ ChanDid(NM_EV_DISABLE, NM_CHAN_ST_OP_ENABLED)
  /\ ts_state = NM_CHAN_ST_OP_DISABLED_OFFLINE
  /\ ~ts_mo.opstart_success

\* the step enters DISABLED_NOTINSTALLED (or enters it again)
EntersNotInstalled ==
  /\ ts_state' = NM_CHAN_ST_OP_DISABLED_NOTINSTALLED
  /\ (ts_state # NM_CHAN_ST_OP_DISABLED_NOTINSTALLED \/ last'.ev = NM_EV_SHUTDOWN_FINISH)

\* DEPENDENCY, OFFLINE and ENABLED
InstalledStates ==
  { NM_CHAN_ST_OP_DISABLED_DEPENDENCY, NM_CHAN_ST_OP_DISABLED_OFFLINE, NM_CHAN_ST_OP_ENABLED }

C39_RmAddr ==
  /\ abis.bsc_oml_host = 0 \/ \E i \in 1..Len(abis.hosts) : abis.hosts[i] = abis.bsc_oml_host
  /\ abis_last.op = ABIS_LINK_EV_VTY_RM_ADDR =>
       LET H == abis_last.data
           hosts == abis_last.pre.hosts
           old == abis_last.pre.bsc_oml_host
       IN /\ abis_last.rc = 0
          /\ abis.bsc_oml_host # H
          /\ old # H => abis.bsc_oml_host = old
          /\ old = H =>
               abis.bsc_oml_host =
                 IF Len(hosts) = 1 THEN 0
                 ELSE IF H = hosts[Len(hosts)] THEN hosts[Len(hosts) - 1]
                 ELSE Follower(hosts, H)

\* the candidate was removed while it was the last of several hosts, and the
\* pointer moved back
C39_Witness ==
  /\ abis_last.op = ABIS_LINK_EV_VTY_RM_ADDR
  /\ abis_last.pre.bsc_oml_host = abis_last.data
  /\ Len(abis_last.pre.hosts) >= 2
  /\ abis_last.data = abis_last.pre.hosts[Len(abis_last.pre.hosts)]
  /\ abis.bsc_oml_host = abis_last.pre.hosts[Len(abis_last.pre.hosts) - 1]

\* every connection attempt ends: the line layer reports the link down
SpecAbisLive == InitAbis /\ [][NextAbis]_vars /\ WF_vars(AbisSignLinkDown)

\* the bounds of link establishment while no host was removed
EstablishmentBounded ==
  /\ abis.fi => abis.state # ABIS_LINK_ST_CONNECTING
  /\ ~abis.removed =>
       /\ abis.connecting <= Len(abis.hosts) + 1
       /\ Len(abis.attempts) <= Len(abis.hosts)
       /\ abis.attempts = SubSeq(abis.hosts, 1, Len(abis.attempts))
       /\ (LinkDownInConnected /\ ~AnyLink(abis_last.pre)) =>
            IF abis_last.pre.bsc_oml_host = 0
              THEN /\ abis.state = ABIS_LINK_ST_FAILED
                   /\ abis.attempts = abis.hosts
                   /\ abis.connecting = Len(abis.hosts) + 1
              ELSE (abis_last.env.line /\ abis_last.env.update) =>
                     /\ abis.state = ABIS_LINK_ST_CONNECTED
                     /\ abis.connecting <= Len(abis.hosts)
                     /\ abis.attempts = SubSeq(abis.hosts, 1, abis.connecting)

\* C37: A-bis link establishment terminates.  While no host is removed and
\* every attempt ends with a link-down before a signalling link existed, the
\* N configured hosts are attempted once each in list order and the FSM
\* reaches FAILED on entry N+1 into CONNECTING; the FSM never rests in
\* CONNECTING, and once opened the link always ends in FAILED.
C37_Terminates ==
  /\ []EstablishmentBounded
  /\ (abis.fi ~> abis.state = ABIS_LINK_ST_FAILED)

\* every host was attempted once, in list order, and the link-down of the
\* last attempt found no candidate left: FAILED on entry N+1
C37_Witness ==
  /\ LinkDownInConnected /\ ~AnyLink(abis_last.pre) /\ ~abis.removed
  /\ Len(abis.hosts) = MaxHosts
  /\ abis.attempts = abis.hosts
  /\ abis.connecting = MaxHosts + 1
  /\ abis.state = ABIS_LINK_ST_FAILED

\* the messages submitted so far, in submission order
Submitted(a) == [ i \in 1..a.oml_submitted |-> i ]

\* C38: OML messages submitted while no OML link exists are queued; when the
\* OML link comes up they are all sent, in submission order, before
\* bts_link_estab is called; whenever an OML link exists the queue is empty;
\* no message is reordered, duplicated or lost.
C38_OmlQueue ==
  /\ abis.oml_link => abis.oml_queue = << >>
  /\ abis.oml_sent \o abis.oml_queue = Submitted(abis)
  /\ (abis_last.op = "abis_oml_sendmsg" /\ ~abis_last.pre.oml_link) =>
       /\ abis.oml_queue = Append(abis_last.pre.oml_queue, abis_last.data)
       /\ abis.oml_sent = abis_last.pre.oml_sent
  /\ abis_last.op = "E1INP_SIGN_OML" =>
       /\ abis.oml_link
       /\ abis.oml_sent = abis_last.pre.oml_sent \o abis_last.pre.oml_queue
       /\ abis.estab = [ called |-> TRUE, queue |-> << >>, sent |-> abis.oml_sent ]

\* the OML link came up with every message still queued, and they went out
\* in submission order
C38_Witness ==
  /\ abis_last.op = "E1INP_SIGN_OML"
  /\ Len(abis_last.pre.oml_queue) = MaxOmlMsgs
  /\ abis.oml_sent = Submitted(abis)
  /\ abis.oml_queue = << >>
  /\ abis.estab.sent = abis.oml_sent

\* C40: lchan_meas_check_compute and lchan_meas_compute_extended never
\* divide by zero, whatever the buffer holds and whatever the channel is:
\* past the completeness check the expected sample count is 3, 13 or 25, and
\* the counts of real samples, SUB samples and real SUB samples divide only
\* when they are at least 1 (the dummy or the stored value is taken
\* otherwise).
C40_NoDivisionByZero ==
  /\ ~meas_last.loc.div0
  /\ (meas_last.op = "check_compute" /\ meas_last.rc = 1) =>
       /\ meas_last.loc.num_ul_meas_expect \in { 3, 13, 25 }
       /\ meas_last.loc.num_ul_meas_actual = 0 =>
            /\ meas_last.loc.irssi_full_sum = MEASUREMENT_DUMMY_IRSSI
            /\ meas_last.loc.ta256b_sum = meas_last.pre.ms_toa256
            /\ meas_last.loc.ci_full_sum = meas_last.pre.ul_ci_cb_full
       /\ meas_last.loc.num_meas_sub = 0 =>
            meas_last.loc.ber_sub_sum = MEASUREMENT_DUMMY_BER
       /\ meas_last.loc.num_meas_sub_actual = 0 =>
            /\ meas_last.loc.irssi_sub_sum = MEASUREMENT_DUMMY_IRSSI
            /\ meas_last.loc.ci_sub_sum = meas_last.pre.ul_ci_cb_sub
  /\ (meas_last.op = "compute_extended" /\ meas_last.pre.uplink = << >>) =>
       lchan.meas = meas_last.pre

\* a half-rate signalling channel computed its period from an empty buffer:
\* 13 samples expected, none real, and nothing was divided by zero
C40_Witness ==
  /\ meas_last.op = "check_compute" /\ meas_last.rc = 1
  /\ meas_last.pre.uplink = << >>
  /\ meas_last.loc.num_ul_meas_expect = 13
  /\ meas_last.loc.num_ul_meas_actual = 0
  /\ meas_last.loc.num_ul_meas_subst = 13
  /\ ~meas_last.loc.div0

====
